---- MODULE Spec2Model ----
(***************************************************************************)
(* Layout analysis of pdfminer.six (src/layout.py): the grouping of glyphs *)
(* into words, words into lines, lines into boxes, boxes into a group     *)
(* tree, and the reading order that follows.                              *)
(*                                                                         *)
(* Coordinates are integers, the inputs being drawn from a grid;           *)
(* a real parameter such as line_overlap is a fraction [num, den] with    *)
(* den > 0, and a comparison a < p * b is checked as a * den < num * b.   *)
(* An object of the program is a handle: its position in the store of the *)
(* run, in creation order.                                                *)
(***************************************************************************)
EXTENDS Integers, Sequences, FiniteSets, TLC

VARIABLES
    pc,          \* position of the run
    laparams,    \* LAParams of the run
    textboxes,   \* analyze: the list of text boxes (handles)
    store,       \* every box and group created so far, by handle
    dists,       \* group_textboxes: the queue of pair entries
    plane_seq,   \* Plane._seq: every object ever added, in order
    plane_objs,  \* Plane._objs: the live objects
    done,        \* group_textboxes: the identities already merged
    groups,      \* LTLayoutContainer.groups (None while unset)
    idmode,      \* how the run's allocator hands out identities
    npop,        \* loop iterations of group_textboxes so far
    container,   \* a container under construction: its class, box, _objs
    tl_lines,    \* group_textlines: lines, the input list
    tl_boxes,    \* group_textlines: boxes, the dict from a line to its box
    tl_box_objs, \* group_textlines: every LTTextBox created, by handle
    tl_pos,      \* group_textlines: lines taken so far by the running loop
    tl_done,     \* group_textlines: done, the boxes met by the second loop
    tl_yield,    \* group_textlines: the boxes yielded so far
    go_objs,     \* group_objects: objs, the input words
    go_pos,      \* group_objects: words taken so far by the loop
    go_obj0,     \* group_objects: obj0 (0 while None)
    go_line,     \* group_objects: line
    go_yield,    \* group_objects: the lines yielded so far
    tc_objs,     \* group_textchars: objs, the input glyphs
    tc_pos,      \* group_textchars: glyphs taken so far by the loop
    tc_obj0,     \* group_textchars: obj0 (0 while None)
    tc_word,     \* group_textchars: word
    tc_yield,    \* group_textchars: the words yielded so far
    cmp,         \* an ordering comparison: operator, operands, outcome
    twin         \* group_objects a second time on the same words

tbVars == <<textboxes, store, dists, plane_seq, plane_objs, done, groups,
            idmode, npop>>

ccVars == <<container>>

tlVars == <<tl_lines, tl_boxes, tl_box_objs, tl_pos, tl_done, tl_yield>>

goVars == <<go_objs, go_pos, go_obj0, go_line, go_yield>>

tcVars == <<tc_objs, tc_pos, tc_obj0, tc_word, tc_yield>>

cmpVars == <<cmp>>

twinVars == <<twin>>

vars == <<pc, laparams, tbVars, ccVars, tlVars, goVars, tcVars, cmpVars, twinVars>>

\* What a run of one part of the analysis leaves alone.
notBoxes == <<ccVars, tlVars, goVars, tcVars, cmpVars, twinVars>>
notContainer == <<laparams, tbVars, tlVars, goVars, tcVars, cmpVars, twinVars>>
notLines == <<laparams, tbVars, ccVars, goVars, tcVars, cmpVars, twinVars>>
notObjects == <<laparams, tbVars, ccVars, tlVars, tcVars, cmpVars, twinVars>>
notChars == <<laparams, tbVars, ccVars, tlVars, goVars, cmpVars, twinVars>>

(***************************************************************************)
(* Bounds and input domains.                                               *)
(***************************************************************************)
MaxBoxes == 3
MaxChildren == 3
MaxLines == 3
MaxWords == 3
MaxGlyphs == 4
MaxFlow == 2

\* Stands for utils.INF, a number above every coordinate of a page.
INF == 1000

\* Rectangles the text boxes of a run are drawn from: a row of three equal
\* boxes with equal gaps, a tall box standing in the row, a box above the
\* first, a box overlapping the first, and a vertical-typed box.
Rect(x0, y0, x1, y1, v) ==
    [x0 |-> x0, y0 |-> y0, x1 |-> x1, y1 |-> y1, vertical |-> v]

BoxShapes ==
    { Rect(0, 0, 1, 1, FALSE), Rect(2, 0, 3, 1, FALSE), Rect(4, 0, 5, 1, FALSE),
      Rect(2, 0, 3, 4, FALSE), Rect(0, 2, 1, 3, FALSE), Rect(0, 0, 2, 2, FALSE),
      Rect(4, 0, 5, 4, TRUE) }

\* boxes_flow as a fraction: -1, 0, the default 0.5, and +1.
Frac(n, d) == [num |-> n, den |-> d]

BoxesFlows == { Frac(0 - 1, 1), Frac(0, 1), Frac(1, 2), Frac(1, 1) }

SeqsUpTo(S, n) == UNION { [1..k -> S] : k \in 0..n }

Min2(a, b) == IF a <= b THEN a ELSE b
Max2(a, b) == IF a >= b THEN a ELSE b
Abs(a) == IF a < 0 THEN 0 - a ELSE a

(***************************************************************************)
(* LTComponent: the box of an object and the derived width and height.     *)
(***************************************************************************)
width(o) == o.x1 - o.x0
height(o) == o.y1 - o.y0

\* The box part of add with the left edge taken as the larger of the two.
ExpandBbox_max_x0(c, o) ==
    [c EXCEPT !.x0 = Max2(c.x0, o.x0), !.y0 = Min2(c.y0, o.y0),
              !.x1 = Max2(c.x1, o.x1), !.y1 = Max2(c.y1, o.y1)]

\* LTExpandableContainer.add, the box part: the union of both boxes.
ExpandBbox(c, o) ==
    [c EXCEPT !.x0 = Min2(c.x0, o.x0), !.y0 = Min2(c.y0, o.y0),
              !.x1 = Max2(c.x1, o.x1), !.y1 = Max2(c.y1, o.y1)]

(***************************************************************************)
(* Plane (utils.Plane, used through its interface): find yields the live   *)
(* objects whose box intersects the query rectangle; iteration yields the  *)
(* live objects in the order they were added.  The query rectangle is      *)
(* given in units of 1/k, so that a margin may be a fraction.              *)
(***************************************************************************)
Plane_find(st, live, k, x0, y0, x1, y1) ==
    { h \in live :
        ~( st[h].x1 * k <= x0 \/ x1 <= st[h].x0 * k
           \/ st[h].y1 * k <= y0 \/ y1 <= st[h].y0 * k ) }

\* An iteration over the plane that leaves out its first object.
Plane_iter_skip_first(seq, live) ==
    LET all == SelectSeq(seq, LAMBDA h : h \in live)
    IN IF all = <<>> THEN all ELSE Tail(all)

\* iter(plane): the objects of the plane in the order they were added.
Plane_iter(seq, live) == SelectSeq(seq, LAMBDA h : h \in live)

(***************************************************************************)
(* group_textboxes                                                         *)
(***************************************************************************)
\* dist: area of the bounding rectangle of both less the two areas.
dist(obj1, obj2) ==
    LET x0 == Min2(obj1.x0, obj2.x0)
        y0 == Min2(obj1.y0, obj2.y0)
        x1 == Max2(obj1.x1, obj2.x1)
        y1 == Max2(obj1.y1, obj2.y1)
    IN (x1 - x0) * (y1 - y0)
         - width(obj1) * height(obj1) - width(obj2) * height(obj2)

\* isany: the live objects, other than the two, in the rectangle around both.
isany(st, live, h1, h2) ==
    LET x0 == Min2(st[h1].x0, st[h2].x0)
        y0 == Min2(st[h1].y0, st[h2].y0)
        x1 == Max2(st[h1].x1, st[h2].x1)
        y1 == Max2(st[h1].y1, st[h2].y1)
    IN Plane_find(st, live, 1, x0, y0, x1, y1) \ {h1, h2}

\* A queue entry without the identities of its objects.
Entry_no_identity(skip, st, h1, h2) ==
    [skip_isany |-> skip, d |-> dist(st[h1], st[h2]),
     id1 |-> 0, id2 |-> 0, obj1 |-> h1, obj2 |-> h2]

\* A queue entry (skip_isany, d, id1, id2, obj1, obj2).
Entry(skip, st, h1, h2) ==
    [skip_isany |-> skip, d |-> dist(st[h1], st[h2]),
     id1 |-> st[h1].id, id2 |-> st[h2].id, obj1 |-> h1, obj2 |-> h2]

\* Tuple order on the key (skip_isany, d, id1, id2); False < True.
KeyLess(e, f) ==
    \/ (~e.skip_isany /\ f.skip_isany)
    \/ /\ e.skip_isany = f.skip_isany
       /\ \/ e.d < f.d
          \/ /\ e.d = f.d
             /\ \/ e.id1 < f.id1
                \/ (e.id1 = f.id1 /\ e.id2 < f.id2)

\* A queue that gives its entries back in the order they came in.
HeapMin_first_in(q) == 1

\* heapq.heappop: the position of a least entry of the queue.
HeapMin(q) ==
    CHOOSE i \in DOMAIN q :
        /\ \A j \in DOMAIN q : ~KeyLess(q[j], q[i])
        /\ \A j \in DOMAIN q : (~KeyLess(q[i], q[j])) => i <= j

RemoveAt(q, i) == SubSeq(q, 1, i - 1) \o SubSeq(q, i + 1, Len(q))

\* The pairs (i, j), i < j, of the input list in the order of the two loops.
RECURSIVE PairEntries(_, _, _)
PairEntries(st, n, k) ==
    \* entries of the pairs (i, j) with i >= k, i < j <= n
    IF k >= n THEN <<>>
    ELSE [j \in 1..(n - k) |-> Entry(FALSE, st, k, k + j)]
           \o PairEntries(st, n, k + 1)

\* isinstance(obj, LTTextBoxVertical) alone.
IsVerticalKind_boxes_only(o) == o.kind = "LTTextBoxVertical"

\* isinstance(obj, (LTTextBoxVertical, LTTextGroupTBRL))
IsVerticalKind(o) == o.kind \in {"LTTextBoxVertical", "LTTextGroupTBRL"}

\* LTTextGroup([obj1, obj2]): a new expandable container holding both.
NewGroup(st, h1, h2, newid) ==
    LET k == IF IsVerticalKind(st[h1]) \/ IsVerticalKind(st[h2])
             THEN "LTTextGroupTBRL" ELSE "LTTextGroupLRTB"
        b == ExpandBbox(st[h1], st[h2])
    IN [kind |-> k, x0 |-> b.x0, y0 |-> b.y0, x1 |-> b.x1, y1 |-> b.y1,
        objs |-> <<h1, h2>>, id |-> newid, index |-> 0 - 1]

\* The state of the loop as a record, so that one iteration is a function.
TBState(st, q, ps, po, dn) ==
    [store |-> st, dists |-> q, plane_seq |-> ps, plane_objs |-> po,
     done |-> dn]

\* Whether the popped pair is put back instead of merged.
Deferred(e, st, live) ==
    e.skip_isany /\ isany(st, live, e.obj1, e.obj2) # {}

\* plane.remove(obj1); plane.remove(obj2), with obj2 left in the plane.
PlaneRemoveBoth_first_only(live, e) == live \ {e.obj1}

\* plane.remove(obj1); plane.remove(obj2)
PlaneRemoveBoth(live, e) == live \ {e.obj1, e.obj2}

\* One iteration of `while len(dists) > 0`; newid is the identity the
\* allocator gives the group if one is created.
TBIterate(s, newid) ==
    LET i == HeapMin(s.dists)
        e == s.dists[i]
        q == RemoveAt(s.dists, i)
    IN IF e.id1 \in s.done \/ e.id2 \in s.done
       THEN [s EXCEPT !.dists = q]
       ELSE IF Deferred(e, s.store, s.plane_objs)
       THEN [s EXCEPT !.dists =
                Append(q, [e EXCEPT !.skip_isany = TRUE])]
       ELSE LET g == Len(s.store) + 1
                st == Append(s.store,
                             NewGroup(s.store, e.obj1, e.obj2, newid))
                live == PlaneRemoveBoth(s.plane_objs, e)
                others == Plane_iter(s.plane_seq, live)
                pushed == [k \in 1..Len(others) |->
                              Entry(FALSE, st, g, others[k])]
            IN [store |-> st,
                dists |-> q \o pushed,
                plane_seq |-> Append(s.plane_seq, g),
                plane_objs |-> live \cup {g},
                done |-> s.done \cup {e.id1, e.id2}]

(***************************************************************************)
(* id(obj): the identity of an object is its address.  The allocator of a  *)
(* run hands out rising addresses ("asc"), falling addresses ("desc") or   *)
(* any free address ("any").                                               *)
(***************************************************************************)
IdSpace == 1..(2 * MaxBoxes - 1)

UsedIds(st) == { st[h].id : h \in DOMAIN st }

FreshIds(st, mode) ==
    IF mode = "asc" THEN { Len(st) + 1 }
    ELSE IF mode = "desc" THEN { 0 - (Len(st) + 1) }
    ELSE IdSpace \ UsedIds(st)

\* A text box that starts with index 0.
NewBox_index0(shape, newid) ==
    [kind |-> IF shape.vertical THEN "LTTextBoxVertical"
              ELSE "LTTextBoxHorizontal",
     x0 |-> shape.x0, y0 |-> shape.y0, x1 |-> shape.x1, y1 |-> shape.y1,
     objs |-> <<>>, id |-> newid, index |-> 0]

\* A text box as group_textlines yields it: index -1, no group around it.
NewBox(shape, newid) ==
    [kind |-> IF shape.vertical THEN "LTTextBoxVertical"
              ELSE "LTTextBoxHorizontal",
     x0 |-> shape.x0, y0 |-> shape.y0, x1 |-> shape.x1, y1 |-> shape.y1,
     objs |-> <<>>, id |-> newid, index |-> 0 - 1]

IsBox(o) == o.kind \in {"LTTextBoxHorizontal", "LTTextBoxVertical"}
IsGroup(o) == o.kind \in {"LTTextGroupLRTB", "LTTextGroupTBRL"}

(***************************************************************************)
(* list.sort(key=...): a stable sort; key is a function on the elements.   *)
(***************************************************************************)
\* A sort that puts elements of equal key in the reverse of their order.
StableSort_ties_reversed(seq, key) ==
    LET n == Len(seq)
        before(j, i) ==
            key[seq[j]] < key[seq[i]] \/ (key[seq[j]] = key[seq[i]] /\ j > i)
        pos(i) == Cardinality({ j \in 1..n : before(j, i) }) + 1
    IN [k \in 1..n |-> seq[CHOOSE i \in 1..n : pos(i) = k]]

StableSort(seq, key) ==
    LET n == Len(seq)
        before(j, i) ==
            key[seq[j]] < key[seq[i]] \/ (key[seq[j]] = key[seq[i]] /\ j < i)
        pos(i) == Cardinality({ j \in 1..n : before(j, i) }) + 1
    IN [k \in 1..n |-> seq[CHOOSE i \in 1..n : pos(i) = k]]

Range(seq) == { seq[i] : i \in DOMAIN seq }

(***************************************************************************)
(* LTTextGroupLRTB.analyze / LTTextGroupTBRL.analyze: the children first,  *)
(* then the sort of the group's own list.  The keys are multiplied by the  *)
(* denominator of boxes_flow, which keeps their order.                     *)
(***************************************************************************)
GroupKey(kind, o, bf) ==
    IF kind = "LTTextGroupLRTB"
    THEN (bf.den - bf.num) * o.x0 - (bf.den + bf.num) * (o.y0 + o.y1)
    ELSE (0 - (bf.den + bf.num)) * (o.x0 + o.x1) - (bf.den - bf.num) * o.y1

RECURSIVE LTTextGroup_analyze(_, _, _)
RECURSIVE LTContainer_analyze(_, _, _)
\* LTContainer.analyze: analyze every object of the list, in order.
LTContainer_analyze(st, hs, bf) ==
    IF hs = <<>> THEN st
    ELSE LTContainer_analyze(LTTextGroup_analyze(st, Head(hs), bf),
                             Tail(hs), bf)

LTTextGroup_analyze(st, h, bf) ==
    IF ~IsGroup(st[h]) THEN st
    ELSE LET st1 == LTContainer_analyze(st, st[h].objs, bf)
             key == [c \in Range(st1[h].objs) |->
                        GroupKey(st1[h].kind, st1[c], bf)]
         IN [st1 EXCEPT ![h].objs = StableSort(@, key)]

(***************************************************************************)
(* IndexAssigner.run: a box takes the next index; a group passes the run   *)
(* on to its children in list order.  The result is the store and the      *)
(* assigner's counter.                                                     *)
(***************************************************************************)
RECURSIVE IndexAssigner_run(_, _, _)
RECURSIVE IndexAssigner_each(_, _, _)
IndexAssigner_each(st, index, hs) ==
    IF hs = <<>> THEN [store |-> st, index |-> index]
    ELSE LET r == IndexAssigner_run(st, index, Head(hs))
         IN IndexAssigner_each(r.store, r.index, Tail(hs))

\* An assigner whose counter stays where it is.
IndexAssigner_run_same_index(st, index, h) ==
    IF IsBox(st[h])
    THEN [store |-> [st EXCEPT ![h].index = index], index |-> index]
    ELSE IF IsGroup(st[h])
    THEN IndexAssigner_each(st, index, st[h].objs)
    ELSE [store |-> st, index |-> index]

IndexAssigner_run(st, index, h) ==
    IF IsBox(st[h])
    THEN [store |-> [st EXCEPT ![h].index = index], index |-> index + 1]
    ELSE IF IsGroup(st[h])
    THEN IndexAssigner_each(st, index, st[h].objs)
    ELSE [store |-> st, index |-> index]

\* `for group in self.groups: group.analyze(laparams); assigner.run(group)`
RECURSIVE AnalyzeAndAssign(_, _, _, _)
AnalyzeAndAssign(st, index, gs, bf) ==
    IF gs = <<>> THEN st
    ELSE LET st1 == LTTextGroup_analyze(st, Head(gs), bf)
             r == IndexAssigner_run(st1, index, Head(gs))
         IN AnalyzeAndAssign(r.store, r.index, Tail(gs), bf)

\* The sort left out: the boxes stay in the order group_textlines gave.
SortByIndex_unsorted(st, boxes) == boxes

\* textboxes.sort(key=lambda box: box.index)
SortByIndex(st, boxes) ==
    StableSort(boxes, [b \in Range(boxes) |-> st[b].index])

(***************************************************************************)
(* The run: analyze from the point where the text boxes exist and          *)
(* boxes_flow is a number.                                                 *)
(***************************************************************************)
\* None, and a value that is not None.
None == [none |-> TRUE, val |-> <<>>]
Some(l) == [none |-> FALSE, val |-> l]

\* The parts of the state a run does not use.
NoBoxes ==
    /\ textboxes = <<>>
    /\ store = <<>>
    /\ dists = <<>>
    /\ plane_seq = <<>>
    /\ plane_objs = {}
    /\ done = {}
    /\ groups = None
    /\ idmode = "asc"
    /\ npop = 0

NoContainer == container = [cls |-> "none"]

NoLines ==
    /\ tl_lines = <<>>
    /\ tl_boxes = <<>>
    /\ tl_box_objs = <<>>
    /\ tl_pos = 0
    /\ tl_done = {}
    /\ tl_yield = <<>>

NoObjects ==
    /\ go_objs = <<>>
    /\ go_pos = 0
    /\ go_obj0 = 0
    /\ go_line = None
    /\ go_yield = <<>>

NoChars ==
    /\ tc_objs = <<>>
    /\ tc_pos = 0
    /\ tc_obj0 = 0
    /\ tc_word = None
    /\ tc_yield = <<>>

NoCompare == cmp = None

NoTwin == twin = None

\* The identities of the n boxes of a run, by allocator.
BoxIds(mode, n) ==
    IF mode = "asc" THEN { [i \in 1..n |-> i] }
    ELSE IF mode = "desc" THEN { [i \in 1..n |-> 0 - i] }
    ELSE { f \in [1..n -> IdSpace] : \A i, j \in 1..n : i # j => f[i] # f[j] }

InitBoxes(modes, shapeset, maxn) ==
    /\ pc = "group_textboxes"
    /\ idmode \in modes
    /\ laparams \in [boxes_flow : BoxesFlows]
    /\ \E shapes \in SeqsUpTo(shapeset, maxn) :
         \E ids \in BoxIds(idmode, Len(shapes)) :
            store = [i \in 1..Len(shapes) |-> NewBox(shapes[i], ids[i])]
    /\ textboxes = [i \in 1..Len(store) |-> i]
    /\ dists = <<>>
    /\ plane_seq = <<>>
    /\ plane_objs = {}
    /\ done = {}
    /\ groups = None
    /\ npop = 0
    /\ NoContainer /\ NoLines /\ NoObjects /\ NoChars /\ NoCompare /\ NoTwin

Init == InitBoxes({"asc", "desc"}, BoxShapes, MaxBoxes)

\* Runs whose allocator may give any free address to any object; the boxes
\* are the three of the row.
IdShapes ==
    { Rect(0, 0, 1, 1, FALSE), Rect(2, 0, 3, 1, FALSE), Rect(4, 0, 5, 1, FALSE) }

InitIds == InitBoxes({"any"}, IdShapes, MaxBoxes)

\* The two loops that fill dists, heapify, and the plane of all boxes.
group_textboxes_begin ==
    /\ pc = "group_textboxes"
    /\ dists' = PairEntries(store, Len(textboxes), 1)
    /\ plane_seq' = textboxes
    /\ plane_objs' = Range(textboxes)
    /\ done' = {}
    /\ pc' = "loop"
    /\ UNCHANGED <<laparams, textboxes, store, groups, idmode, npop>>
    /\ UNCHANGED notBoxes

\* One iteration of the while loop.
group_textboxes_loop ==
    /\ pc = "loop"
    /\ dists # <<>>
    /\ \E newid \in FreshIds(store, idmode) :
         LET s == TBIterate(TBState(store, dists, plane_seq, plane_objs,
                                    done), newid)
         IN /\ store' = s.store
            /\ dists' = s.dists
            /\ plane_seq' = s.plane_seq
            /\ plane_objs' = s.plane_objs
            /\ done' = s.done
    /\ npop' = npop + 1
    /\ UNCHANGED <<pc, laparams, textboxes, groups, idmode>>
    /\ UNCHANGED notBoxes

\* `return list(plane)`, assigned to self.groups.
group_textboxes_return ==
    /\ pc = "loop"
    /\ dists = <<>>
    /\ groups' = Some(Plane_iter(plane_seq, plane_objs))
    /\ pc' = "grouped"
    /\ UNCHANGED <<laparams, textboxes, store, dists, plane_seq, plane_objs,
                   done, idmode, npop>>
    /\ UNCHANGED notBoxes

\* Every group is analyzed and handed to one IndexAssigner.
analyze_groups ==
    /\ pc = "grouped"
    /\ store' = AnalyzeAndAssign(store, 0, groups.val, laparams.boxes_flow)
    /\ pc' = "indexed"
    /\ UNCHANGED <<laparams, textboxes, dists, plane_seq, plane_objs, done,
                   groups, idmode, npop>>
    /\ UNCHANGED notBoxes

\* The boxes are sorted by index and become the container's children.
analyze_sort ==
    /\ pc = "indexed"
    /\ textboxes' = SortByIndex(store, textboxes)
    /\ pc' = "analyzed"
    /\ UNCHANGED <<laparams, store, dists, plane_seq, plane_objs, done,
                   groups, idmode, npop>>
    /\ UNCHANGED notBoxes

Next ==
    \/ group_textboxes_begin
    \/ group_textboxes_loop
    \/ group_textboxes_return
    \/ analyze_groups
    \/ analyze_sort

Spec == Init /\ [][Next]_vars

SpecIds == InitIds /\ [][Next]_vars

(***************************************************************************)
(* analyze from the test of boxes_flow on: with None the boxes are         *)
(* analyzed and sorted by getkey, with a number they are clustered.        *)
(***************************************************************************)
\* boxes_flow None: not a number.
NoFlow == Frac(0, 0)

\* The boxes of BoxShapes and two more vertical-typed ones, one with the
\* right edge of the other and a higher bottom edge.
FlowShapes ==
    BoxShapes \cup { Rect(6, 0, 7, 4, TRUE), Rect(6, 2, 7, 5, TRUE) }

\* The order of tuples of three numbers.
TupleLess(a, b) ==
    \/ a[1] < b[1]
    \/ a[1] = b[1] /\ a[2] < b[2]
    \/ a[1] = b[1] /\ a[2] = b[2] /\ a[3] < b[3]

\* list.sort(key=...) with tuples for keys.
StableSortTuples(seq, key) ==
    LET n == Len(seq)
        before(j, i) ==
            TupleLess(key[seq[j]], key[seq[i]])
              \/ (key[seq[j]] = key[seq[i]] /\ j < i)
        pos(i) == Cardinality({ j \in 1..n : before(j, i) }) + 1
    IN [k \in 1..n |-> seq[CHOOSE i \in 1..n : pos(i) = k]]

\* getkey with the right edge of a vertical box not negated.
getkey_ascending_x1(box) ==
    IF box.kind = "LTTextBoxVertical"
    THEN <<0, box.x1, 0 - box.y0>>
    ELSE <<1, 0 - box.y0, box.x0>>

\* getkey of analyze
getkey(box) ==
    IF box.kind = "LTTextBoxVertical"
    THEN <<0, 0 - box.x1, 0 - box.y0>>
    ELSE <<1, 0 - box.y0, box.x0>>

\* LTTextBoxHorizontal.analyze, LTTextBoxVertical.analyze: the lines of the
\* box are sorted by -y1, by -x1.
LTTextBox_analyze(st, h) ==
    LET key == [c \in Range(st[h].objs) |->
                   IF st[h].kind = "LTTextBoxVertical"
                   THEN 0 - st[c].x1 ELSE 0 - st[c].y1]
    IN [st EXCEPT ![h].objs = StableSort(@, key)]

RECURSIVE AnalyzeBoxes(_, _)
\* `for textbox in textboxes: textbox.analyze(laparams)`
AnalyzeBoxes(st, hs) ==
    IF hs = <<>> THEN st
    ELSE AnalyzeBoxes(LTTextBox_analyze(st, Head(hs)), Tail(hs))

InitFlow ==
    /\ pc = "boxes_flow"
    /\ idmode = "asc"
    /\ laparams \in [boxes_flow : BoxesFlows \cup {NoFlow}]
    /\ \E shapes \in SeqsUpTo(FlowShapes, MaxBoxes) :
         store = [i \in 1..Len(shapes) |-> NewBox(shapes[i], i)]
    /\ textboxes = [i \in 1..Len(store) |-> i]
    /\ dists = <<>>
    /\ plane_seq = <<>>
    /\ plane_objs = {}
    /\ done = {}
    /\ groups = None
    /\ npop = 0
    /\ NoContainer /\ NoLines /\ NoObjects /\ NoChars /\ NoCompare /\ NoTwin

\* `if laparams.boxes_flow is None`: every box is analyzed, the list is
\* sorted by getkey and becomes the container's children.
analyze_flat ==
    /\ pc = "boxes_flow"
    /\ laparams.boxes_flow = NoFlow
    /\ store' = AnalyzeBoxes(store, textboxes)
    /\ textboxes' = StableSortTuples(textboxes,
                        [b \in Range(textboxes) |-> getkey(store'[b])])
    /\ pc' = "analyzed"
    /\ UNCHANGED <<laparams, dists, plane_seq, plane_objs, done, groups,
                   idmode, npop>>
    /\ UNCHANGED notBoxes

\* else: group_textboxes is called.
analyze_clustered ==
    /\ pc = "boxes_flow"
    /\ laparams.boxes_flow # NoFlow
    /\ pc' = "group_textboxes"
    /\ UNCHANGED <<laparams, tbVars>>
    /\ UNCHANGED notBoxes

NextFlow ==
    \/ analyze_flat
    \/ analyze_clustered
    \/ group_textboxes_begin
    \/ group_textboxes_loop
    \/ group_textboxes_return
    \/ analyze_groups
    \/ analyze_sort

SpecFlow == InitFlow /\ [][NextFlow]_vars

(***************************************************************************)
(* LAParams.__init__ and _validate.  An argument is a value with its type: *)
(* None, an int, a float (num / den, den = 0 for nan), a bool (an int of   *)
(* value 0 or 1), or a str.                                                *)
(***************************************************************************)
Value(type, n, d) == [type |-> type, num |-> n, den |-> d]

\* None; the ints up to MaxFlow either way; the floats in steps of a
\* quarter in the same range, and nan; both bools; two strs.
FlowArguments ==
    { Value("NoneType", 0, 1) }
      \cup { Value("int", n, 1) : n \in (0 - MaxFlow)..MaxFlow }
      \cup { Value("float", n, 4) : n \in (0 - 4 * MaxFlow)..(4 * MaxFlow) }
      \cup { Value("float", 0, 0) }
      \cup { Value("bool", n, 1) : n \in {0, 1} }
      \cup { Value("str", 1, 2), Value("str", 0, 1) }

\* isinstance(v, int) or isinstance(v, float); a bool is an int.
IsIntOrFloat(v) == v.type \in {"int", "bool"} \/ v.type = "float"

\* a <= v for an int a; false when v is nan.
IntLe(a, v) == v.den # 0 /\ a * v.den <= v.num
\* v <= b for an int b; false when v is nan.
LeInt(v, b) == v.den # 0 /\ v.num <= b * v.den

\* The range test with both ends left out.
InFlowRange_open(v) == ~IntLe(1, v) /\ ~LeInt(v, 0 - 1) /\ v.den # 0

\* -1 <= self.boxes_flow <= 1
InFlowRange(v) == IntLe(0 - 1, v) /\ LeInt(v, 1)

\* _validate: what it raises, "" when it returns.
LAParams_validate(la) ==
    IF la.boxes_flow.type = "NoneType" THEN ""
    ELSE IF ~IsIntOrFloat(la.boxes_flow) THEN "TypeError"
    ELSE IF ~InFlowRange(la.boxes_flow) THEN "ValueError"
    ELSE ""

InitParams ==
    /\ pc = "LAParams"
    /\ laparams \in [boxes_flow : FlowArguments, detect_vertical : BOOLEAN,
                     all_texts : BOOLEAN]
    /\ NoBoxes /\ NoContainer /\ NoLines /\ NoObjects /\ NoChars /\ NoCompare /\ NoTwin

\* __init__ returns.
LAParams_init ==
    /\ pc = "LAParams"
    /\ LAParams_validate(laparams) = ""
    /\ pc' = "constructed"
    /\ UNCHANGED <<laparams, tbVars, ccVars, tlVars, goVars, tcVars, cmpVars, twinVars>>

\* __init__ raises TypeError.
LAParams_TypeError ==
    /\ pc = "LAParams"
    /\ LAParams_validate(laparams) = "TypeError"
    /\ pc' = "TypeError"
    /\ UNCHANGED <<laparams, tbVars, ccVars, tlVars, goVars, tcVars, cmpVars, twinVars>>

\* __init__ raises ValueError.
LAParams_ValueError ==
    /\ pc = "LAParams"
    /\ LAParams_validate(laparams) = "ValueError"
    /\ pc' = "ValueError"
    /\ UNCHANGED <<laparams, tbVars, ccVars, tlVars, goVars, tcVars, cmpVars, twinVars>>

NextParams ==
    \/ LAParams_init
    \/ LAParams_TypeError
    \/ LAParams_ValueError

SpecParams == InitParams /\ [][NextParams]_vars

(***************************************************************************)
(* The ordering comparisons of LTComponent.  The outcome of a call is the  *)
(* error it raises ("" when it returns) and the value it returns.          *)
(***************************************************************************)
Component(kind, x0, y0, x1, y1) ==
    [kind |-> kind, x0 |-> x0, y0 |-> y0, x1 |-> x1, y1 |-> y1]

\* The boxes of BoxShapes as primitives.
Components ==
    { Component("LTComponent", r.x0, r.y0, r.x1, r.y1) : r \in BoxShapes }

\* The right operand: a primitive, or something else.
CompareOperands == Components \cup { Component("int", 0, 0, 0, 0) }

Raises(error) == [raised |-> error, value |-> "none"]
Returns(value) == [raised |-> "", value |-> value]

\* __lt__ as a comparison of the left edges.
LTComponent_lt_by_x0(self, other) ==
    Returns(IF self.x0 < other.x0 THEN "True" ELSE "False")

\* LTComponent.__lt__
LTComponent_lt(self, other) == Raises("ValueError")
\* LTComponent.__le__
LTComponent_le(self, other) == Raises("ValueError")
\* LTComponent.__gt__
LTComponent_gt(self, other) == Raises("ValueError")
\* LTComponent.__ge__
LTComponent_ge(self, other) == Raises("ValueError")

InitCompare ==
    /\ pc = "compare"
    /\ laparams = None
    /\ cmp \in [op : {""}, self : Components, other : CompareOperands,
                out : {Returns("none")}]
    /\ NoBoxes /\ NoContainer /\ NoLines /\ NoObjects /\ NoChars /\ NoTwin

\* self < other
compare_lt ==
    /\ pc = "compare"
    /\ cmp' = [cmp EXCEPT !.op = "<", !.out = LTComponent_lt(cmp.self, cmp.other)]
    /\ pc' = "compared"
    /\ UNCHANGED <<laparams, tbVars, ccVars, tlVars, goVars, tcVars, twinVars>>

\* self <= other
compare_le ==
    /\ pc = "compare"
    /\ cmp' = [cmp EXCEPT !.op = "<=", !.out = LTComponent_le(cmp.self, cmp.other)]
    /\ pc' = "compared"
    /\ UNCHANGED <<laparams, tbVars, ccVars, tlVars, goVars, tcVars, twinVars>>

\* self > other
compare_gt ==
    /\ pc = "compare"
    /\ cmp' = [cmp EXCEPT !.op = ">", !.out = LTComponent_gt(cmp.self, cmp.other)]
    /\ pc' = "compared"
    /\ UNCHANGED <<laparams, tbVars, ccVars, tlVars, goVars, tcVars, twinVars>>

\* self >= other
compare_ge ==
    /\ pc = "compare"
    /\ cmp' = [cmp EXCEPT !.op = ">=", !.out = LTComponent_ge(cmp.self, cmp.other)]
    /\ pc' = "compared"
    /\ UNCHANGED <<laparams, tbVars, ccVars, tlVars, goVars, tcVars, twinVars>>

NextCompare ==
    \/ compare_lt
    \/ compare_le
    \/ compare_gt
    \/ compare_ge

SpecCompare == InitCompare /\ [][NextCompare]_vars

(***************************************************************************)
(* What the claims speak of.                                               *)
(***************************************************************************)
NBoxes == Len(textboxes)

\* The merges performed so far: every group of the store is one merge.
NMerges == Len(store) - NBoxes

Returned == pc \in {"grouped", "indexed", "analyzed"}

\* The leaf boxes below an object in depth-first pre-order, the children of
\* a group taken in the order of its list.
RECURSIVE LeafOrder(_, _)
RECURSIVE LeafOrderAll(_, _)
LeafOrderAll(st, hs) ==
    IF hs = <<>> THEN <<>>
    ELSE LeafOrder(st, Head(hs)) \o LeafOrderAll(st, Tail(hs))

LeafOrder(st, h) ==
    IF IsBox(st[h]) THEN <<h>> ELSE LeafOrderAll(st, st[h].objs)

\* C1: for n >= 1 boxes group_textboxes terminates (the loop runs exactly
\* (n-1)^2 times: once per entry ever pushed), every merge takes two objects
\* out of the live set and puts one group in (n - merges objects are live),
\* and it returns after exactly n-1 merges a list of exactly one node, the
\* input box itself when n = 1.
C1_MergeTermination ==
    NBoxes >= 1 =>
      /\ pc = "loop" =>
           /\ Cardinality(plane_objs) = NBoxes - NMerges
           /\ npop <= (NBoxes - 1) * (NBoxes - 1)
           /\ (dists = <<>>) <=> (npop = (NBoxes - 1) * (NBoxes - 1))
      /\ Returned =>
           /\ NMerges = NBoxes - 1
           /\ Len(groups.val) = 1
           /\ groups.val[1] = Len(store)
           /\ NBoxes = 1 => groups.val = <<1>>

C1_Witness ==
    /\ pc = "grouped"
    /\ NBoxes = MaxBoxes
    /\ NMerges = MaxBoxes - 1
    /\ Len(groups.val) = 1

\* C2: when the popped entry has its flag unset, both endpoints are live and
\* another live object intersects the rectangle around the two, the pair is
\* not merged at that pop: the same pair goes back into the queue with the
\* flag set.
C2_ObstructedPairDeferred ==
    [][ ( /\ pc = "loop"
          /\ dists # <<>>
          /\ LET e == dists[HeapMin(dists)]
             IN /\ ~e.skip_isany
                /\ e.id1 \notin done /\ e.id2 \notin done
                /\ isany(store, plane_objs, e.obj1, e.obj2) # {} )
        => LET e == dists[HeapMin(dists)]
           IN /\ store' = store
              /\ plane_objs' = plane_objs
              /\ \E i \in DOMAIN dists' :
                    dists'[i] = [e EXCEPT !.skip_isany = TRUE] ]_vars

\* C3: after analyze with boxes_flow a number, the depth-first pre-order walk
\* of the group tree visits the boxes in strictly ascending index, it visits
\* every box of the container, and the container stores its boxes in that
\* order.
C3_ReadingOrderIsPreorder ==
    pc = "analyzed" =>
      LET walk == LeafOrderAll(store, groups.val)
      IN /\ \A i, j \in DOMAIN walk :
               i < j => store[walk[i]].index < store[walk[j]].index
         /\ Range(walk) = Range(textboxes)
         /\ textboxes = walk

C3_Witness ==
    /\ pc = "analyzed"
    /\ NBoxes = MaxBoxes
    /\ textboxes # [i \in 1..NBoxes |-> i]
    /\ textboxes = LeafOrderAll(store, groups.val)

(***************************************************************************)
(* A second run of the analysis on the same boxes, in the same order, with *)
(* the same configuration, whose allocator hands out rising addresses.     *)
(***************************************************************************)
RECURSIVE TBRun(_, _)
TBRun(s, mode) ==
    IF s.dists = <<>> THEN s
    ELSE TBRun(TBIterate(s, CHOOSE newid \in FreshIds(s.store, mode) : TRUE),
               mode)

OtherRun ==
    LET n == NBoxes
        st0 == [i \in 1..n |-> [store[i] EXCEPT !.id = i, !.index = 0 - 1]]
        all == [i \in 1..n |-> i]
        s == TBRun(TBState(st0, PairEntries(st0, n, 1), all, Range(all), {}),
                   "asc")
    IN AnalyzeAndAssign(s.store, 0, Plane_iter(s.plane_seq, s.plane_objs),
                        laparams.boxes_flow)

\* The group tree of a store: every group by its kind and the boxes below
\* each of its children, in list order.
TreeOf(st) ==
    { [kind |-> st[g].kind,
       parts |-> [k \in DOMAIN st[g].objs |-> LeafOrder(st, st[g].objs[k])]] :
      g \in { h \in DOMAIN st : IsGroup(st[h]) } }

\* C4: two runs on the same boxes in the same order with the same
\* configuration end with the same group tree and the same index for every
\* box, whatever identities the two runs give the objects.
C4_Deterministic ==
    pc = "analyzed" =>
      LET other == OtherRun
      IN /\ TreeOf(store) = TreeOf(other)
         /\ \A b \in 1..NBoxes : store[b].index = other[b].index

(***************************************************************************)
(* Containers and add.  A child is an object with a box or an LTAnno,      *)
(* which has none.  LTExpandableContainer (word, line, box, group) starts  *)
(* with the box (+INF, +INF, -INF, -INF); LTLayoutContainer (page, figure) *)
(* is constructed with its box and inherits LTContainer.add.               *)
(***************************************************************************)
LTAnno == [anno |-> TRUE]

Boxed(x0, y0, x1, y1) ==
    [anno |-> FALSE, x0 |-> x0, y0 |-> y0, x1 |-> x1, y1 |-> y1]

\* The boxes of BoxShapes, and the box of a container that is still empty.
ChildShapes ==
    { Boxed(r.x0, r.y0, r.x1, r.y1) : r \in BoxShapes }
      \cup { Boxed(INF, INF, 0 - INF, 0 - INF) }

PageBoxes == { Boxed(0, 0, 6, 6) }

LTExpandableContainer_init ==
    [cls |-> "LTExpandableContainer",
     x0 |-> INF, y0 |-> INF, x1 |-> 0 - INF, y1 |-> 0 - INF, objs |-> <<>>]

LTLayoutContainer_init(bbox) ==
    [cls |-> "LTLayoutContainer",
     x0 |-> bbox.x0, y0 |-> bbox.y0, x1 |-> bbox.x1, y1 |-> bbox.y1,
     objs |-> <<>>]

\* LTContainer.add
LTContainer_add(c, obj) == [c EXCEPT !.objs = Append(@, obj)]

\* LTExpandableContainer.add
LTExpandableContainer_add(c, obj) == ExpandBbox(LTContainer_add(c, obj), obj)

InitAdd ==
    /\ pc = "add"
    /\ laparams = [boxes_flow |-> Frac(1, 2)]
    /\ container \in
         {LTExpandableContainer_init}
           \cup { LTLayoutContainer_init(b) : b \in PageBoxes }
    /\ NoBoxes /\ NoLines /\ NoObjects /\ NoChars /\ NoCompare /\ NoTwin

\* add on a word, line, box or group.
add_expandable ==
    /\ pc = "add"
    /\ container.cls = "LTExpandableContainer"
    /\ Len(container.objs) < MaxChildren
    /\ \E obj \in ChildShapes :
          container' = LTExpandableContainer_add(container, obj)
    /\ UNCHANGED pc
    /\ UNCHANGED notContainer

\* LTContainer.add(self, LTAnno(...)) on a line.
add_anno ==
    /\ pc = "add"
    /\ container.cls = "LTExpandableContainer"
    /\ Len(container.objs) < MaxChildren
    /\ container' = LTContainer_add(container, LTAnno)
    /\ UNCHANGED pc
    /\ UNCHANGED notContainer

\* add on a page or figure.
add_layout ==
    /\ pc = "add"
    /\ container.cls = "LTLayoutContainer"
    /\ Len(container.objs) < MaxChildren
    /\ \E obj \in ChildShapes : container' = LTContainer_add(container, obj)
    /\ UNCHANGED pc
    /\ UNCHANGED notContainer

NextAdd ==
    \/ add_expandable
    \/ add_anno
    \/ add_layout

SpecAdd == InitAdd /\ [][NextAdd]_vars

\* The least and the greatest of a set of numbers, d when the set is empty.
MinOf(S, d) == IF S = {} THEN d ELSE CHOOSE m \in S : \A x \in S : m <= x
MaxOf(S, d) == IF S = {} THEN d ELSE CHOOSE m \in S : \A x \in S : m >= x

BoxedChildren(c) == { i \in DOMAIN c.objs : ~c.objs[i].anno }

\* The box of c is the componentwise min/max over its children with a box
\* (the degenerate box when there is none).
BboxIsUnion(c) ==
    LET B == BoxedChildren(c)
    IN /\ c.x0 = MinOf({ c.objs[i].x0 : i \in B }, INF)
       /\ c.y0 = MinOf({ c.objs[i].y0 : i \in B }, INF)
       /\ c.x1 = MaxOf({ c.objs[i].x1 : i \in B }, 0 - INF)
       /\ c.y1 = MaxOf({ c.objs[i].y1 : i \in B }, 0 - INF)

LineShapes ==
    { Rect(0, 0, 10, 4, FALSE), Rect(0, 4, 10, 8, FALSE),
      Rect(0, 5, 10, 9, FALSE), Rect(0, 5, 10, 10, FALSE),
      Rect(20, 0, 30, 4, FALSE),
      Rect(0, 0, 4, 10, TRUE), Rect(4, 0, 8, 10, TRUE) }

\* line_margin: the default 0.5, and 0.25.
LineMargins == { Frac(1, 2), Frac(1, 4) }

custom_ratio == Frac(1, 4)

\* The three alignment tests and the size test of a horizontal line; the
\* tolerance is t.num / t.den.
H_is_left_aligned_with(self, other, t) ==
    Abs(other.x0 - self.x0) * t.den <= t.num
H_is_right_aligned_with(self, other, t) ==
    Abs(other.x1 - self.x1) * t.den <= t.num
H_is_centrally_aligned_with(self, other, t) ==
    Abs((other.x0 + other.x1) - (self.x0 + self.x1)) * t.den <= 2 * t.num
H_is_same_height_as(self, other, t) ==
    Abs(height(other) - height(self)) * t.den <= t.num

\* The same of a vertical line.
V_is_lower_aligned_with(self, other, t) ==
    Abs(other.y0 - self.y0) * t.den <= t.num
V_is_upper_aligned_with(self, other, t) ==
    Abs(other.y1 - self.y1) * t.den <= t.num
V_is_centrally_aligned_with(self, other, t) ==
    Abs((other.y0 + other.y1) - (self.y0 + self.y1)) * t.den <= 2 * t.num
V_is_same_width_as(self, other, t) ==
    Abs(width(other) - width(self)) * t.den <= t.num

AllOf(ls) == { i : i \in DOMAIN ls }

\* LTTextLineHorizontal.find_neighbors: d = custom_ratio * self.height,
\* whatever ratio is.
LTTextLineHorizontal_find_neighbors(ls, i, ratio) ==
    LET self == ls[i]
        d == Frac(custom_ratio.num * height(self), custom_ratio.den)
        objs == Plane_find(ls, AllOf(ls), d.den,
                           self.x0 * d.den, self.y0 * d.den - d.num,
                           self.x1 * d.den, self.y1 * d.den + d.num)
    IN { j \in objs :
           /\ ~ls[j].vertical
           /\ H_is_same_height_as(self, ls[j], d)
           /\ \/ H_is_left_aligned_with(self, ls[j], d)
              \/ H_is_right_aligned_with(self, ls[j], d)
              \/ H_is_centrally_aligned_with(self, ls[j], d) }

\* LTTextLineVertical.find_neighbors: d = ratio * self.width.
LTTextLineVertical_find_neighbors(ls, i, ratio) ==
    LET self == ls[i]
        d == Frac(ratio.num * width(self), ratio.den)
        objs == Plane_find(ls, AllOf(ls), d.den,
                           self.x0 * d.den - d.num, self.y0 * d.den,
                           self.x1 * d.den + d.num, self.y1 * d.den)
    IN { j \in objs :
           /\ ls[j].vertical
           /\ V_is_same_width_as(self, ls[j], d)
           /\ \/ V_is_lower_aligned_with(self, ls[j], d)
              \/ V_is_upper_aligned_with(self, ls[j], d)
              \/ V_is_centrally_aligned_with(self, ls[j], d) }

\* line.find_neighbors(plane, ratio), as a list in the order of the plane.
find_neighbors(ls, i, ratio) ==
    LET found == IF ls[i].vertical
                 THEN LTTextLineVertical_find_neighbors(ls, i, ratio)
                 ELSE LTTextLineHorizontal_find_neighbors(ls, i, ratio)
    IN SelectSeq([j \in DOMAIN ls |-> j], LAMBDA j : j \in found)

\* utils.uniq: the list without repeats, first occurrences kept in order.
RECURSIVE uniq(_)
uniq(seq) ==
    IF seq = <<>> THEN <<>>
    ELSE LET init == uniq(SubSeq(seq, 1, Len(seq) - 1))
             last == seq[Len(seq)]
         IN IF last \in Range(init) THEN init ELSE Append(init, last)

DictPop(d, k) == [x \in DOMAIN d \ {k} |-> d[x]]
DictSet(d, k, v) == [x \in DOMAIN d \cup {k} |-> IF x = k THEN v ELSE d[x]]

\* The loop over the neighbors with the box of a neighbor left where it is.
RECURSIVE GatherMembers_no_extend(_, _, _, _)
GatherMembers_no_extend(members, bx, bobjs, neighbors) ==
    IF neighbors = <<>> THEN [members |-> members, boxes |-> bx]
    ELSE GatherMembers_no_extend(Append(members, Head(neighbors)), bx, bobjs,
                                 Tail(neighbors))

\* `for obj1 in neighbors`: the neighbor joins the members, and with it the
\* lines of the box it is in, which is taken out of the dict under its key.
RECURSIVE GatherMembers(_, _, _, _)
GatherMembers(members, bx, bobjs, neighbors) ==
    IF neighbors = <<>> THEN [members |-> members, boxes |-> bx]
    ELSE LET obj1 == Head(neighbors)
             m1 == Append(members, obj1)
         IN IF obj1 \in DOMAIN bx
            THEN GatherMembers(m1 \o bobjs[bx[obj1]].objs, DictPop(bx, obj1),
                               bobjs, Tail(neighbors))
            ELSE GatherMembers(m1, bx, bobjs, Tail(neighbors))

\* `for obj in uniq(members): box.add(obj); boxes[obj] = box`
RECURSIVE FillBox(_, _, _, _, _)
FillBox(box, b, bx, ls, members) ==
    IF members = <<>> THEN [box |-> box, boxes |-> bx]
    ELSE LET obj == Head(members)
             box1 == [ExpandBbox(box, ls[obj]) EXCEPT !.objs = Append(@, obj)]
         IN FillBox(box1, b, DictSet(bx, obj, b), ls, Tail(members))

NewTextBox(vertical) ==
    [kind |-> IF vertical THEN "LTTextBoxVertical" ELSE "LTTextBoxHorizontal",
     x0 |-> INF, y0 |-> INF, x1 |-> 0 - INF, y1 |-> 0 - INF, objs |-> <<>>]

\* LTComponent.is_empty
is_empty(o) == width(o) <= 0 \/ height(o) <= 0

InitLines ==
    /\ pc = "lines_group"
    /\ laparams \in [line_margin : LineMargins]
    /\ tl_lines \in SeqsUpTo(LineShapes, MaxLines)
    /\ tl_boxes = <<>>
    /\ tl_box_objs = <<>>
    /\ tl_pos = 0
    /\ tl_done = {}
    /\ tl_yield = <<>>
    /\ NoBoxes /\ NoContainer /\ NoObjects /\ NoChars /\ NoCompare /\ NoTwin

\* One iteration of the first loop: the line, its neighbors and the boxes
\* of its neighbors go into one new box.
group_textlines_line ==
    /\ pc = "lines_group"
    /\ tl_pos < Len(tl_lines)
    /\ LET line == tl_pos + 1
           neighbors == find_neighbors(tl_lines, line, laparams.line_margin)
           g == GatherMembers(<<line>>, tl_boxes, tl_box_objs, neighbors)
           b == Len(tl_box_objs) + 1
           f == FillBox(NewTextBox(tl_lines[line].vertical), b, g.boxes,
                        tl_lines, uniq(g.members))
       IN /\ tl_box_objs' = Append(tl_box_objs, f.box)
          /\ tl_boxes' = f.boxes
          /\ tl_pos' = line
    /\ UNCHANGED <<pc, tl_lines, tl_done, tl_yield>>
    /\ UNCHANGED notLines

\* The first loop is over; the second starts with done = set().
group_textlines_grouped ==
    /\ pc = "lines_group"
    /\ tl_pos = Len(tl_lines)
    /\ pc' = "lines_yield"
    /\ tl_pos' = 0
    /\ tl_done' = {}
    /\ UNCHANGED <<tl_lines, tl_boxes, tl_box_objs, tl_yield>>
    /\ UNCHANGED notLines

\* One iteration of the second loop: the box of the line is yielded the
\* first time it is met, unless its box is empty.
group_textlines_yield ==
    /\ pc = "lines_yield"
    /\ tl_pos < Len(tl_lines)
    /\ LET line == tl_pos + 1
       IN /\ tl_pos' = line
          /\ IF line \notin DOMAIN tl_boxes
             THEN UNCHANGED <<tl_done, tl_yield>>
             ELSE LET box == tl_boxes[line]
                  IN IF box \in tl_done
                     THEN UNCHANGED <<tl_done, tl_yield>>
                     ELSE /\ tl_done' = tl_done \cup {box}
                          /\ tl_yield' =
                               IF is_empty(tl_box_objs[box]) THEN tl_yield
                               ELSE Append(tl_yield, box)
    /\ UNCHANGED <<pc, tl_lines, tl_boxes, tl_box_objs>>
    /\ UNCHANGED notLines

group_textlines_return ==
    /\ pc = "lines_yield"
    /\ tl_pos = Len(tl_lines)
    /\ pc' = "lines_done"
    /\ UNCHANGED tlVars
    /\ UNCHANGED notLines

NextLines ==
    \/ group_textlines_line
    \/ group_textlines_grouped
    \/ group_textlines_yield
    \/ group_textlines_return

SpecLines == InitLines /\ [][NextLines]_vars

(***************************************************************************)
(* group_objects.  The input is the list of words group_textchars made;    *)
(* a word in a line is the word with its position in that list.            *)
(***************************************************************************)
Word(x0, y0, x1, y1) ==
    [anno |-> FALSE, cls |-> "LTTextWordHorizontal",
     x0 |-> x0, y0 |-> y0, x1 |-> x1, y1 |-> y1]

\* A word, words 0, 1, 2 and 6 to its right on the same baseline, a word
\* far to the right, and a word below the first.
WordShapes ==
    { Word(0, 12, 10, 22), Word(10, 12, 20, 22), Word(11, 12, 21, 22),
      Word(12, 12, 22, 22), Word(16, 12, 26, 22), Word(40, 12, 50, 22),
      Word(0, 0, 10, 10) }

\* word_margin: the default 0.1, and 0.5.
WordMargins == { Frac(1, 10), Frac(1, 2) }

\* char_margin: the default 2.0.
CharMargins == { Frac(2, 1) }

\* line_overlap: the default 0.5.
LineOverlaps == { Frac(1, 2) }

is_hoverlap(self, obj) == obj.x0 <= self.x1 /\ self.x0 <= obj.x1

hdistance(self, obj) ==
    IF is_hoverlap(self, obj) THEN 0
    ELSE Min2(Abs(self.x0 - obj.x1), Abs(self.x1 - obj.x0))

hoverlap(self, obj) ==
    IF is_hoverlap(self, obj)
    THEN Min2(Abs(self.x0 - obj.x1), Abs(self.x1 - obj.x0))
    ELSE 0

is_voverlap(self, obj) == obj.y0 <= self.y1 /\ self.y0 <= obj.y1

vdistance(self, obj) ==
    IF is_voverlap(self, obj) THEN 0
    ELSE Min2(Abs(self.y0 - obj.y1), Abs(self.y1 - obj.y0))

voverlap(self, obj) ==
    IF is_voverlap(self, obj)
    THEN Min2(Abs(self.y0 - obj.y1), Abs(self.y1 - obj.y0))
    ELSE 0

\* LTTextWord.is_compatible, LTChar.is_compatible
is_compatible(self, obj) == TRUE

\* isinstance(obj, LTChar)
IsLTChar(obj) == obj.cls = "LTChar"

\* halign of group_objects: the distance is measured against
\* min(width) * (char_margin / 3).
group_objects_halign(obj0, obj1, la) ==
    /\ is_compatible(obj0, obj1)
    /\ is_voverlap(obj0, obj1)
    /\ Min2(height(obj0), height(obj1)) * la.line_overlap.num
         < voverlap(obj0, obj1) * la.line_overlap.den
    /\ hdistance(obj0, obj1) * 3 * la.char_margin.den
         < Min2(width(obj0), width(obj1)) * la.char_margin.num

\* valign of group_objects: the distance is measured against
\* max(height) * (char_margin / 3).
group_objects_valign(obj0, obj1, la) ==
    /\ la.detect_vertical
    /\ is_compatible(obj0, obj1)
    /\ is_hoverlap(obj0, obj1)
    /\ Min2(width(obj0), width(obj1)) * la.line_overlap.num
         < hoverlap(obj0, obj1) * la.line_overlap.den
    /\ vdistance(obj0, obj1) * 3 * la.char_margin.den
         < Max2(height(obj0), height(obj1)) * la.char_margin.num

\* The object at position i of the list, as a container holds it.
Held(objs, i) ==
    [anno |-> FALSE, h |-> i, cls |-> objs[i].cls,
     x0 |-> objs[i].x0, y0 |-> objs[i].y0,
     x1 |-> objs[i].x1, y1 |-> objs[i].y1]

LTTextLineHorizontal_init(word_margin) ==
    [cls |-> "LTTextLineHorizontal", word_margin |-> word_margin,
     x0 |-> INF, y0 |-> INF, x1 |-> 0 - INF, y1 |-> 0 - INF,
     objs |-> <<>>, edge |-> INF]

LTTextLineVertical_init(word_margin) ==
    [cls |-> "LTTextLineVertical", word_margin |-> word_margin,
     x0 |-> INF, y0 |-> INF, x1 |-> 0 - INF, y1 |-> 0 - INF,
     objs |-> <<>>, edge |-> 0 - INF]

\* LTTextLineHorizontal.add: edge is _x1.  The space marker is for an LTChar.
LTTextLineHorizontal_add(line, obj) ==
    LET wm == line.word_margin
        far == line.edge * wm.den
                 < obj.x0 * wm.den - wm.num * Max2(width(obj), height(obj))
        spaced == IF IsLTChar(obj) /\ wm.num # 0 /\ far
                  THEN LTContainer_add(line, LTAnno)
                  ELSE line
    IN LTExpandableContainer_add([spaced EXCEPT !.edge = obj.x1], obj)

\* LTTextLineVertical.add: edge is _y0.
LTTextLineVertical_add(line, obj) ==
    LET wm == line.word_margin
        far == obj.y1 * wm.den + wm.num * Max2(width(obj), height(obj))
                 < line.edge * wm.den
        spaced == IF IsLTChar(obj) /\ wm.num # 0 /\ far
                  THEN LTContainer_add(line, LTAnno)
                  ELSE line
    IN LTExpandableContainer_add([spaced EXCEPT !.edge = obj.y0], obj)

\* line.add(obj) that leaves out the third member of a line.
LTTextLine_add_two_at_most(line, obj) ==
    IF Len(line.objs) >= 2 THEN line
    ELSE IF line.cls = "LTTextLineVertical"
    THEN LTTextLineVertical_add(line, obj)
    ELSE LTTextLineHorizontal_add(line, obj)

\* line.add(obj)
LTTextLine_add(line, obj) ==
    IF line.cls = "LTTextLineVertical"
    THEN LTTextLineVertical_add(line, obj)
    ELSE LTTextLineHorizontal_add(line, obj)

InitObjects ==
    /\ pc = "objects"
    /\ laparams \in [line_overlap : LineOverlaps, char_margin : CharMargins,
                     word_margin : WordMargins, detect_vertical : BOOLEAN]
    /\ go_objs \in SeqsUpTo(WordShapes, MaxWords) \ {<<>>}
    /\ go_pos = 0
    /\ go_obj0 = 0
    /\ go_line = None
    /\ go_yield = <<>>
    /\ NoBoxes /\ NoContainer /\ NoLines /\ NoChars /\ NoCompare /\ NoTwin

\* The loop has an obj1 and obj0 is not None.
ObjectsPair == pc = "objects" /\ go_pos < Len(go_objs) /\ go_obj0 # 0

\* The line goes on with obj1: the first branch of the loop.
ObjectsGoOn ==
    LET obj0 == go_objs[go_obj0]
        obj1 == go_objs[go_pos + 1]
    IN /\ ~go_line.none
       /\ \/ /\ group_objects_halign(obj0, obj1, laparams)
             /\ go_line.val.cls = "LTTextLineHorizontal"
          \/ /\ group_objects_valign(obj0, obj1, laparams)
             /\ go_line.val.cls = "LTTextLineVertical"

\* The first pass of the loop: obj0 is None, obj1 becomes obj0.
group_objects_first ==
    /\ pc = "objects" /\ go_pos < Len(go_objs) /\ go_obj0 = 0
    /\ go_pos' = go_pos + 1
    /\ go_obj0' = go_pos + 1
    /\ UNCHANGED <<pc, go_objs, go_line, go_yield>>
    /\ UNCHANGED notObjects

\* line.add(obj1)
group_objects_add ==
    /\ ObjectsPair /\ ObjectsGoOn
    /\ go_line' = Some(LTTextLine_add(go_line.val, Held(go_objs, go_pos + 1)))
    /\ go_pos' = go_pos + 1
    /\ go_obj0' = go_pos + 1
    /\ UNCHANGED <<pc, go_objs, go_yield>>
    /\ UNCHANGED notObjects

\* elif line is not None: yield line; line = None
group_objects_yield ==
    /\ ObjectsPair /\ ~ObjectsGoOn /\ ~go_line.none
    /\ go_yield' = Append(go_yield, go_line.val)
    /\ go_line' = None
    /\ go_pos' = go_pos + 1
    /\ go_obj0' = go_pos + 1
    /\ UNCHANGED <<pc, go_objs>>
    /\ UNCHANGED notObjects

\* else: a new line, of obj0 and obj1 when they are aligned one way only,
\* of obj0 alone and yielded at once when not.
group_objects_new ==
    /\ ObjectsPair /\ ~ObjectsGoOn /\ go_line.none
    /\ LET obj0 == Held(go_objs, go_obj0)
           obj1 == Held(go_objs, go_pos + 1)
           halign == group_objects_halign(obj0, obj1, laparams)
           valign == group_objects_valign(obj0, obj1, laparams)
           hline == LTTextLineHorizontal_init(laparams.word_margin)
           vline == LTTextLineVertical_init(laparams.word_margin)
       IN IF valign /\ ~halign
          THEN /\ go_line' = Some(LTTextLine_add(LTTextLine_add(vline, obj0),
                                                 obj1))
               /\ UNCHANGED go_yield
          ELSE IF halign /\ ~valign
          THEN /\ go_line' = Some(LTTextLine_add(LTTextLine_add(hline, obj0),
                                                 obj1))
               /\ UNCHANGED go_yield
          ELSE /\ go_yield' = Append(go_yield, LTTextLine_add(hline, obj0))
               /\ go_line' = None
    /\ go_pos' = go_pos + 1
    /\ go_obj0' = go_pos + 1
    /\ UNCHANGED <<pc, go_objs>>
    /\ UNCHANGED notObjects

\* After the loop: a line of the last object if there is no line; the line
\* is yielded.
group_objects_return ==
    /\ pc = "objects" /\ go_pos = Len(go_objs)
    /\ LET hline == LTTextLineHorizontal_init(laparams.word_margin)
           line == IF go_line.none
                   THEN LTTextLine_add(hline, Held(go_objs, go_obj0))
                   ELSE go_line.val
       IN /\ go_line' = Some(line)
          /\ go_yield' = Append(go_yield, line)
    /\ pc' = "objects_done"
    /\ UNCHANGED <<go_objs, go_pos, go_obj0>>
    /\ UNCHANGED notObjects

NextObjects ==
    \/ group_objects_first
    \/ group_objects_add
    \/ group_objects_yield
    \/ group_objects_new
    \/ group_objects_return

SpecObjects == InitObjects /\ [][NextObjects]_vars

(***************************************************************************)
(* group_textchars.  The input is the list of the glyphs of the page in    *)
(* stream order; a glyph in a word is the glyph with its position.         *)
(***************************************************************************)
LTChar(text, x0, y0, x1, y1) ==
    [anno |-> FALSE, cls |-> "LTChar", text |-> text,
     x0 |-> x0, y0 |-> y0, x1 |-> x1, y1 |-> y1]

\* Letters on one baseline: two that touch, a low one a unit further, a
\* wide one three units from the second; a letter below the first and one
\* below that; spaces and a line break at the second and third places.
GlyphShapes ==
    { LTChar("a", 0, 10, 4, 14), LTChar("a", 4, 10, 8, 14),
      LTChar("a", 9, 11, 13, 13), LTChar("a", 11, 10, 21, 14),
      LTChar("a", 0, 6, 4, 10), LTChar("a", 0, 2, 4, 6),
      LTChar(" ", 4, 10, 8, 14), LTChar(" ", 9, 11, 13, 13),
      LTChar("\n", 9, 11, 13, 13) }

\* char_margin_for_word: the default 0.05, and 0.5.
CharMarginsForWord == { Frac(1, 20), Frac(1, 2) }

\* halign with the distance measured against min(width).
group_textchars_halign_min_width(obj0, obj1, la) ==
    /\ is_compatible(obj0, obj1)
    /\ is_voverlap(obj0, obj1)
    /\ Min2(height(obj0), height(obj1)) * la.line_overlap.num
         < voverlap(obj0, obj1) * la.line_overlap.den
    /\ hdistance(obj0, obj1) * la.char_margin_for_word.den
         < Min2(width(obj0), width(obj1)) * la.char_margin_for_word.num

\* halign of group_textchars: the distance is measured against
\* max(width) * char_margin_for_word.
group_textchars_halign(obj0, obj1, la) ==
    /\ is_compatible(obj0, obj1)
    /\ is_voverlap(obj0, obj1)
    /\ Min2(height(obj0), height(obj1)) * la.line_overlap.num
         < voverlap(obj0, obj1) * la.line_overlap.den
    /\ hdistance(obj0, obj1) * la.char_margin_for_word.den
         < Max2(width(obj0), width(obj1)) * la.char_margin_for_word.num

\* valign of group_textchars.
group_textchars_valign(obj0, obj1, la) ==
    /\ la.detect_vertical
    /\ is_compatible(obj0, obj1)
    /\ is_hoverlap(obj0, obj1)
    /\ Min2(width(obj0), width(obj1)) * la.line_overlap.num
         < hoverlap(obj0, obj1) * la.line_overlap.den
    /\ vdistance(obj0, obj1) * la.char_margin_for_word.den
         < Max2(height(obj0), height(obj1)) * la.char_margin_for_word.num

\* obj.get_text() != " " and obj.get_text() != "\n"
NotBlank(obj) == obj.text # " " /\ obj.text # "\n"

\* The glyph at position i of the list, as a word holds it.
HeldChar(objs, i) ==
    [anno |-> FALSE, h |-> i, cls |-> objs[i].cls, text |-> objs[i].text,
     x0 |-> objs[i].x0, y0 |-> objs[i].y0,
     x1 |-> objs[i].x1, y1 |-> objs[i].y1]

LTTextWordHorizontal_init(char_margin_for_word) ==
    [cls |-> "LTTextWordHorizontal",
     char_margin_for_word |-> char_margin_for_word,
     x0 |-> INF, y0 |-> INF, x1 |-> 0 - INF, y1 |-> 0 - INF,
     objs |-> <<>>, edge |-> INF, num_of_chars |-> 0]

LTTextWordVertical_init(char_margin_for_word) ==
    [cls |-> "LTTextWordVertical",
     char_margin_for_word |-> char_margin_for_word,
     x0 |-> INF, y0 |-> INF, x1 |-> 0 - INF, y1 |-> 0 - INF,
     objs |-> <<>>, edge |-> 0 - INF, num_of_chars |-> 0]

\* LTTextWordHorizontal.add (edge is _x1), LTTextWordVertical.add (edge is
\* _y0): the count, the edge, and the add of the expandable container.
LTTextWord_add(word, obj) ==
    LET e == IF word.cls = "LTTextWordVertical" THEN obj.y0 ELSE obj.x1
    IN LTExpandableContainer_add(
           [word EXCEPT !.edge = e, !.num_of_chars = @ + 1], obj)

\* if obj.get_text() != " " and obj.get_text() != "\n": word.add(obj)
AddUnlessBlank(word, obj) ==
    IF NotBlank(obj) THEN LTTextWord_add(word, obj) ELSE word

InitChars ==
    /\ pc = "chars"
    /\ laparams \in [line_overlap : LineOverlaps,
                     char_margin_for_word : CharMarginsForWord,
                     detect_vertical : BOOLEAN]
    /\ tc_objs \in SeqsUpTo(GlyphShapes, MaxGlyphs) \ {<<>>}
    /\ tc_pos = 0
    /\ tc_obj0 = 0
    /\ tc_word = None
    /\ tc_yield = <<>>
    /\ NoBoxes /\ NoContainer /\ NoLines /\ NoObjects /\ NoCompare /\ NoTwin

\* The loop has an obj1 and obj0 is not None.
CharsPair == pc = "chars" /\ tc_pos < Len(tc_objs) /\ tc_obj0 # 0

\* The word goes on with obj1: the first branch of the loop.
CharsGoOn ==
    /\ group_textchars_halign(tc_objs[tc_obj0], tc_objs[tc_pos + 1], laparams)
    /\ ~tc_word.none
    /\ tc_word.val.cls = "LTTextWordHorizontal"
    /\ NotBlank(tc_objs[tc_pos + 1])

\* The first pass of the loop: obj0 is None, obj1 becomes obj0.
group_textchars_first ==
    /\ pc = "chars" /\ tc_pos < Len(tc_objs) /\ tc_obj0 = 0
    /\ tc_pos' = tc_pos + 1
    /\ tc_obj0' = tc_pos + 1
    /\ UNCHANGED <<pc, tc_objs, tc_word, tc_yield>>
    /\ UNCHANGED notChars

\* word.add(obj1)
group_textchars_add ==
    /\ CharsPair /\ CharsGoOn
    /\ tc_word' = Some(LTTextWord_add(tc_word.val,
                                      HeldChar(tc_objs, tc_pos + 1)))
    /\ tc_pos' = tc_pos + 1
    /\ tc_obj0' = tc_pos + 1
    /\ UNCHANGED <<pc, tc_objs, tc_yield>>
    /\ UNCHANGED notChars

\* elif word is not None: yield word; word = None
group_textchars_yield ==
    /\ CharsPair /\ ~CharsGoOn /\ ~tc_word.none
    /\ tc_yield' = Append(tc_yield, tc_word.val)
    /\ tc_word' = None
    /\ tc_pos' = tc_pos + 1
    /\ tc_obj0' = tc_pos + 1
    /\ UNCHANGED <<pc, tc_objs>>
    /\ UNCHANGED notChars

\* else: a new word.  Aligned one way only, it takes obj0 and obj1, each
\* unless blank; otherwise it takes obj0 unless obj1 is blank, and is
\* yielded at once.
group_textchars_new ==
    /\ CharsPair /\ ~CharsGoOn /\ tc_word.none
    /\ LET obj0 == HeldChar(tc_objs, tc_obj0)
           obj1 == HeldChar(tc_objs, tc_pos + 1)
           halign == group_textchars_halign(obj0, obj1, laparams)
           valign == group_textchars_valign(obj0, obj1, laparams)
           hword == LTTextWordHorizontal_init(laparams.char_margin_for_word)
           vword == LTTextWordVertical_init(laparams.char_margin_for_word)
       IN IF valign /\ ~halign
          THEN /\ tc_word' = Some(AddUnlessBlank(AddUnlessBlank(vword, obj0),
                                                 obj1))
               /\ UNCHANGED tc_yield
          ELSE IF halign /\ ~valign
          THEN /\ tc_word' = Some(AddUnlessBlank(AddUnlessBlank(hword, obj0),
                                                 obj1))
               /\ UNCHANGED tc_yield
          ELSE /\ tc_yield' =
                    Append(tc_yield,
                           IF NotBlank(obj1) THEN LTTextWord_add(hword, obj0)
                           ELSE hword)
               /\ tc_word' = None
    /\ tc_pos' = tc_pos + 1
    /\ tc_obj0' = tc_pos + 1
    /\ UNCHANGED <<pc, tc_objs>>
    /\ UNCHANGED notChars

\* After the loop: a word of the last glyph if there is no word; the word
\* is yielded.
group_textchars_return ==
    /\ pc = "chars" /\ tc_pos = Len(tc_objs)
    /\ LET hword == LTTextWordHorizontal_init(laparams.char_margin_for_word)
           word == IF tc_word.none
                   THEN LTTextWord_add(hword, HeldChar(tc_objs, tc_obj0))
                   ELSE tc_word.val
       IN /\ tc_word' = Some(word)
          /\ tc_yield' = Append(tc_yield, word)
    /\ pc' = "chars_done"
    /\ UNCHANGED <<tc_objs, tc_pos, tc_obj0>>
    /\ UNCHANGED notChars

NextChars ==
    \/ group_textchars_first
    \/ group_textchars_add
    \/ group_textchars_yield
    \/ group_textchars_new
    \/ group_textchars_return

SpecChars == InitChars /\ [][NextChars]_vars

(***************************************************************************)
(* LTLayoutContainer.analyze and LTFigure.analyze, from the call to the    *)
(* return: the parts above run one after the other, each on what the one   *)
(* before it yielded.  A child of the container is an object with the      *)
(* position h it had when analyze was called (0 for an object made by      *)
(* analyze) and the number of times its own analyze was called.            *)
(***************************************************************************)
Child(cls, text, x0, y0, x1, y1, h) ==
    [anno |-> FALSE, cls |-> cls, text |-> text,
     x0 |-> x0, y0 |-> y0, x1 |-> x1, y1 |-> y1, h |-> h, analyzed |-> 0]

\* What a child may be, position apart: two letters that touch, a letter
\* two units from the first, a letter on a line above, a space, a
\* rectangle and a figure.
ChildKinds ==
    { Child("LTChar", "a", 0, 10, 4, 14, 0), Child("LTChar", "a", 4, 10, 8, 14, 0),
      Child("LTChar", "a", 6, 10, 10, 14, 0),
      Child("LTChar", "a", 0, 30, 4, 34, 0), Child("LTChar", " ", 4, 10, 8, 14, 0),
      Child("LTRect", "", 0, 0, 6, 6, 0), Child("LTFigure", "", 10, 0, 16, 6, 0) }

\* The configurations of a whole analysis: the defaults but for
\* char_margin_for_word 0.5, with boxes_flow 0.5 or None.
AnalysisParams ==
    [line_overlap : {Frac(1, 2)}, char_margin : {Frac(2, 1)},
     line_margin : {Frac(1, 2)}, word_margin : {Frac(1, 10)},
     boxes_flow : {Frac(1, 2), NoFlow},
     char_margin_for_word : {Frac(1, 2)},
     detect_vertical : {FALSE}, all_texts : BOOLEAN]

\* utils.fsplit(pred, objs): the objects pred holds of and the others, both
\* in the order of objs; flags[i] is pred(objs[i]).
fsplit(flags, objs) ==
    LET idx == [i \in DOMAIN objs |-> i]
        ti == SelectSeq(idx, LAMBDA i : flags[i])
        fi == SelectSeq(idx, LAMBDA i : ~flags[i])
    IN [t |-> [k \in DOMAIN ti |-> objs[ti[k]]],
        f |-> [k \in DOMAIN fi |-> objs[fi[k]]]]

\* fsplit(lambda obj: isinstance(obj, LTChar), self)
SplitChars(objs) == fsplit([i \in DOMAIN objs |-> IsLTChar(objs[i])], objs)

\* fsplit(lambda obj: obj.is_empty(), textlines)
SplitEmpties(lines) == fsplit([i \in DOMAIN lines |-> is_empty(lines[i])], lines)

\* Every other object analyzed twice.
AnalyzeOthers_twice(objs) ==
    [i \in DOMAIN objs |->
        IF IsLTChar(objs[i]) THEN objs[i]
        ELSE [objs[i] EXCEPT !.analyzed = @ + 2]]

\* `for obj in otherobjs: obj.analyze(laparams)`, seen on the child list.
AnalyzeOthers(objs) ==
    [i \in DOMAIN objs |->
        IF IsLTChar(objs[i]) THEN objs[i]
        ELSE [objs[i] EXCEPT !.analyzed = @ + 1]]

\* A figure whose analyze goes on whatever all_texts is.
FigureReturns_never(cls, la) == FALSE

\* LTFigure.analyze: `if not laparams.all_texts: return`
FigureReturns(cls, la) == cls = "LTFigure" /\ ~la.all_texts

\* LTLayoutContainer.analyze is entered: a page, or a figure with all_texts.
AnalyzeEntered ==
    /\ pc = "analyze"
    /\ ~FigureReturns(container.cls, laparams)

InitAnalyze ==
    /\ pc = "analyze"
    /\ laparams \in AnalysisParams
    /\ \E cls \in {"LTPage", "LTFigure"} :
         \E kinds \in SeqsUpTo(ChildKinds, MaxChildren) :
            container =
                [cls |-> cls, x0 |-> 0, y0 |-> 0, x1 |-> 50, y1 |-> 50,
                 objs |-> [i \in DOMAIN kinds |-> [kinds[i] EXCEPT !.h = i]]]
    /\ NoBoxes /\ NoLines /\ NoObjects /\ NoChars /\ NoCompare /\ NoTwin

\* LTFigure.analyze: `if not laparams.all_texts: return`
LTFigure_analyze_return ==
    /\ pc = "analyze"
    /\ FigureReturns(container.cls, laparams)
    /\ pc' = "returned"
    /\ UNCHANGED <<laparams, tbVars, ccVars, tlVars, goVars, tcVars, cmpVars, twinVars>>

\* The other objects are analyzed; `if not textobjs: return`
analyze_no_text ==
    /\ AnalyzeEntered
    /\ SplitChars(container.objs).t = <<>>
    /\ container' = [container EXCEPT !.objs = AnalyzeOthers(@)]
    /\ pc' = "returned"
    /\ UNCHANGED <<laparams, tbVars, tlVars, goVars, tcVars, cmpVars, twinVars>>

\* The other objects are analyzed; group_textchars is called on textobjs.
analyze_textobjs ==
    /\ AnalyzeEntered
    /\ SplitChars(container.objs).t # <<>>
    /\ container' = [container EXCEPT !.objs = AnalyzeOthers(@)]
    /\ tc_objs' = SplitChars(container.objs).t
    /\ pc' = "chars"
    /\ UNCHANGED <<laparams, tbVars, tlVars, goVars, tc_pos, tc_obj0, tc_word,
                   tc_yield, cmpVars, twinVars>>

\* textwords is the list of the words; group_objects is called on it.
analyze_textwords ==
    /\ pc = "chars_done"
    /\ go_objs' = tc_yield
    /\ pc' = "objects"
    /\ UNCHANGED <<laparams, tbVars, ccVars, tlVars, go_pos, go_obj0, go_line,
                   go_yield, tcVars, cmpVars, twinVars>>

\* The lines are split into the empty ones and the others; group_textlines
\* is called on the others.
analyze_textlines ==
    /\ pc = "objects_done"
    /\ LET textlines == SplitEmpties(go_yield).f
       IN tl_lines' = [k \in DOMAIN textlines |->
                          Rect(textlines[k].x0, textlines[k].y0,
                               textlines[k].x1, textlines[k].y1,
                               textlines[k].cls = "LTTextLineVertical")]
    /\ pc' = "lines_group"
    /\ UNCHANGED <<laparams, tbVars, ccVars, tl_boxes, tl_box_objs, tl_pos,
                   tl_done, tl_yield, goVars, tcVars, cmpVars, twinVars>>

\* textboxes is the list of the boxes; the test of boxes_flow comes next.
analyze_textboxes ==
    /\ pc = "lines_done"
    /\ store' = [k \in DOMAIN tl_yield |->
                    LET box == tl_box_objs[tl_yield[k]]
                    IN NewBox(Rect(box.x0, box.y0, box.x1, box.y1,
                                   box.kind = "LTTextBoxVertical"), k)]
    /\ textboxes' = [k \in DOMAIN tl_yield |-> k]
    /\ pc' = "boxes_flow"
    /\ UNCHANGED <<laparams, dists, plane_seq, plane_objs, done, groups,
                   idmode, npop, ccVars, tlVars, goVars, tcVars, cmpVars, twinVars>>

\* self._objs = otherobjs + textboxes + empties
analyze_return_others_first ==
    /\ pc = "analyzed"
    /\ LET boxes == [k \in DOMAIN textboxes |->
                        LET b == store[textboxes[k]]
                        IN Child(b.kind, "", b.x0, b.y0, b.x1, b.y1, 0)]
           otherobjs == SplitChars(container.objs).f
           lines == SplitEmpties(go_yield).t
           empties == [k \in DOMAIN lines |->
                          [Child(lines[k].cls, "", lines[k].x0, lines[k].y0,
                                 lines[k].x1, lines[k].y1, 0)
                             EXCEPT !.analyzed = 1]]
       IN container' = [container EXCEPT !.objs = otherobjs \o boxes \o empties]
    /\ pc' = "returned"
    /\ UNCHANGED <<laparams, tbVars, tlVars, goVars, tcVars, cmpVars, twinVars>>

\* self._objs = textboxes + otherobjs + empties
analyze_return ==
    /\ pc = "analyzed"
    /\ LET boxes == [k \in DOMAIN textboxes |->
                        LET b == store[textboxes[k]]
                        IN Child(b.kind, "", b.x0, b.y0, b.x1, b.y1, 0)]
           otherobjs == SplitChars(container.objs).f
           lines == SplitEmpties(go_yield).t
           empties == [k \in DOMAIN lines |->
                          [Child(lines[k].cls, "", lines[k].x0, lines[k].y0,
                                 lines[k].x1, lines[k].y1, 0)
                             EXCEPT !.analyzed = 1]]
       IN container' = [container EXCEPT !.objs = boxes \o otherobjs \o empties]
    /\ pc' = "returned"
    /\ UNCHANGED <<laparams, tbVars, tlVars, goVars, tcVars, cmpVars, twinVars>>

NextAnalyze ==
    \/ LTFigure_analyze_return
    \/ analyze_no_text
    \/ analyze_textobjs
    \/ group_textchars_first
    \/ group_textchars_add
    \/ group_textchars_yield
    \/ group_textchars_new
    \/ group_textchars_return
    \/ analyze_textwords
    \/ group_objects_first
    \/ group_objects_add
    \/ group_objects_yield
    \/ group_objects_new
    \/ group_objects_return
    \/ analyze_textlines
    \/ group_textlines_line
    \/ group_textlines_grouped
    \/ group_textlines_yield
    \/ group_textlines_return
    \/ analyze_textboxes
    \/ analyze_flat
    \/ analyze_clustered
    \/ group_textboxes_begin
    \/ group_textboxes_loop
    \/ group_textboxes_return
    \/ analyze_groups
    \/ analyze_sort
    \/ analyze_return

SpecAnalyze == InitAnalyze /\ [][NextAnalyze]_vars

(***************************************************************************)
(* Classification.  line.add tags the word and the line while              *)
(* group_objects runs, and analyze tags the boxes group_textlines made.    *)
(* The words are grouped into lines and the lines into boxes twice, the    *)
(* classifiers answering as one oracle says the first time and as another  *)
(* says the second time.  A text is the tuple of its characters.           *)
(***************************************************************************)
MaxTagged == 2

DigitChars == { "0", "1", "2", "3", "4", "5", "6", "7", "8", "9" }

\* "1234567890123"; "0123456789"; "12345/n67890"; ":"
Texts ==
    { <<"1", "2", "3", "4", "5", "6", "7", "8", "9", "0", "1", "2", "3">>,
      <<"0", "1", "2", "3", "4", "5", "6", "7", "8", "9">>,
      <<"1", "2", "3", "4", "5", "/", "n", "6", "7", "8", "9", "0">>,
      <<":">> }

\* input.replace("/n", "")
RECURSIVE RemoveSlashN(_)
RemoveSlashN(input) ==
    IF Len(input) < 2 THEN input
    ELSE IF input[1] = "/" /\ input[2] = "n"
    THEN RemoveSlashN(SubSeq(input, 3, Len(input)))
    ELSE <<input[1]>> \o RemoveSlashN(Tail(input))

\* re.search("[1-9][0-9]{9,18}", input): a digit other than 0 with nine or
\* more digits behind it, anywhere in the text.
is_ac_num_regex(input) ==
    LET s == RemoveSlashN(input)
    IN \E i \in 1..(Len(s) - 9) :
          /\ s[i] \in DigitChars \ {"0"}
          /\ \A k \in 1..9 : s[i + k] \in DigitChars

\* The classifiers that parse dates, read the mappings file and match
\* phrases: each answers what the oracle says.
is_date(o, date_string) == o.is_date
is_header(o, input) == o.is_header
is_cl_bal(o, input) == o.is_cl_bal
is_account_number(o, input) == o.is_account_number

\* The pattern classifier: the one of the code, or one that answers the
\* same for every text.
AccountPattern(o, input) ==
    IF o.pattern = "regex" THEN is_ac_num_regex(input) ELSE o.pattern = "True"

\* The oracles of the first run leave the pattern to the code.
Oracles ==
    [is_date : BOOLEAN, is_header : BOOLEAN, is_cl_bal : BOOLEAN,
     is_account_number : BOOLEAN, pattern : {"regex"}]

\* The oracles of the second run: every classifier refuses, or accepts.
OtherOracles ==
    { [is_date |-> b, is_header |-> b, is_cl_bal |-> b,
       is_account_number |-> b, pattern |-> IF b THEN "True" ELSE "False"]
        : b \in BOOLEAN }

\* A horizontal word: nature is "form" when a glyph of the word is ":".
TaggedWord(text, w) ==
    [anno |-> FALSE, cls |-> w.cls, text |-> text,
     nature |-> IF \E k \in DOMAIN text : text[k] = ":" THEN "form" ELSE "",
     type |-> "", form_field |-> "",
     x0 |-> w.x0, y0 |-> w.y0, x1 |-> w.x1, y1 |-> w.y1]

\* A word, a word to its right on the same baseline, a word below it.
TaggedShapes == { Word(0, 12, 10, 22), Word(11, 12, 21, 22), Word(0, 0, 10, 10) }

TaggedWords == { TaggedWord(t, w) : t \in Texts, w \in TaggedShapes }

\* LTTextLine.__init__: the tags of a new line are empty.
LTTextLine_init(line) ==
    [geo |-> line, nature |-> "", type |-> "", form_field |-> ""]

\* The text of the line: the texts of its words, one after the other.
RECURSIVE JoinTexts(_, _)
JoinTexts(objs, words) ==
    IF objs = <<>> THEN <<>>
    ELSE (IF Head(objs).anno THEN <<" ">> ELSE words[Head(objs).h].text)
            \o JoinTexts(Tail(objs), words)

\* The tags LTTextLineHorizontal.add writes, the later write over the
\* earlier one.
LTTextLineHorizontal_tags(tl, words, i, o) ==
    LET obj == words[i]
        both == JoinTexts(tl.geo.objs, words) \o obj.text
        nature == IF tl.nature = "" /\ obj.nature = "form" THEN "form"
                  ELSE tl.nature
        type == IF is_header(o, obj.text) THEN "header"
                ELSE IF is_date(o, obj.text) THEN "date"
                ELSE obj.type
        line_field == IF is_account_number(o, both) THEN "account_number"
                      ELSE IF is_cl_bal(o, both) THEN "closing_balance"
                      ELSE tl.form_field
        obj_field == IF AccountPattern(o, obj.text) THEN "ac_num_regex"
                     ELSE IF is_account_number(o, obj.text)
                     THEN "account_number"
                     ELSE obj.form_field
    IN [line |-> [tl EXCEPT !.nature = nature, !.form_field = line_field],
        words |-> [words EXCEPT ![i].type = type, ![i].form_field = obj_field]]

\* The tags LTTextLineVertical.add writes.
LTTextLineVertical_tags(tl, words, i, o) ==
    LET obj == words[i]
        nature == IF tl.nature = "" /\ obj.nature = "form" THEN "form"
                  ELSE tl.nature
        type == IF is_header(o, obj.text) THEN "header"
                ELSE IF is_date(o, obj.text) THEN "date"
                ELSE obj.type
        obj_field == IF is_account_number(o, obj.text) THEN "account_number"
                     ELSE IF is_cl_bal(o, obj.text) THEN "closing_balance"
                     ELSE obj.form_field
    IN [line |-> [tl EXCEPT !.nature = nature],
        words |-> [words EXCEPT ![i].type = type, ![i].form_field = obj_field]]

LTTextLine_tags(tl, words, i, o) ==
    IF tl.geo.cls = "LTTextLineVertical"
    THEN LTTextLineVertical_tags(tl, words, i, o)
    ELSE LTTextLineHorizontal_tags(tl, words, i, o)

\* line.add(obj) in which a word tagged as a date stays out of the line.
Classified_add_dates_apart(tl, words, i, o) ==
    LET t == LTTextLine_tags(tl, words, i, o)
    IN [line |-> IF t.words[i].type = "date" THEN t.line
                 ELSE [t.line EXCEPT
                          !.geo = LTTextLine_add(tl.geo, Held(words, i))],
        words |-> t.words]

\* line.add(obj): the tags are written, and the word goes into the line.
Classified_add(tl, words, i, o) ==
    LET t == LTTextLine_tags(tl, words, i, o)
    IN [line |-> [t.line EXCEPT
                     !.geo = LTTextLine_add(tl.geo, Held(words, i))],
        words |-> t.words]

\* A run of group_objects before its first pass.
ClassifiedRun(words) ==
    [pc |-> "objects", words |-> words, pos |-> 0, obj0 |-> 0,
     line |-> None, yield |-> <<>>, boxes |-> <<>>]

\* The line goes on with obj1: the first branch of the loop.
ClassifiedGoOn(r, la) ==
    LET obj0 == r.words[r.obj0]
        obj1 == r.words[r.pos + 1]
    IN /\ ~r.line.none
       /\ \/ /\ group_objects_halign(obj0, obj1, la)
             /\ r.line.val.geo.cls = "LTTextLineHorizontal"
          \/ /\ group_objects_valign(obj0, obj1, la)
             /\ r.line.val.geo.cls = "LTTextLineVertical"

\* The else branch of the loop: a new line of obj0 and obj1, or of obj0.
ClassifiedNew(r, la, o) ==
    LET obj0 == r.words[r.obj0]
        obj1 == r.words[r.pos + 1]
        halign == group_objects_halign(obj0, obj1, la)
        valign == group_objects_valign(obj0, obj1, la)
        hline == LTTextLine_init(LTTextLineHorizontal_init(la.word_margin))
        vline == LTTextLine_init(LTTextLineVertical_init(la.word_margin))
        first == Classified_add(IF valign /\ ~halign THEN vline ELSE hline,
                                r.words, r.obj0, o)
        second == Classified_add(first.line, first.words, r.pos + 1, o)
        next == [r EXCEPT !.pos = r.pos + 1, !.obj0 = r.pos + 1]
    IN IF (valign /\ ~halign) \/ (halign /\ ~valign)
       THEN [next EXCEPT !.line = Some(second.line), !.words = second.words]
       ELSE [next EXCEPT !.yield = Append(@, first.line), !.line = None,
                         !.words = first.words]

\* One pass of the loop of group_objects, or the code after the loop.
group_objects_pass(r, la, o) ==
    LET next == [r EXCEPT !.pos = r.pos + 1, !.obj0 = r.pos + 1]
    IN IF r.pos = Len(r.words)
       THEN LET hline ==
                    LTTextLine_init(LTTextLineHorizontal_init(la.word_margin))
                last == IF r.line.none
                        THEN Classified_add(hline, r.words, r.obj0, o)
                        ELSE [line |-> r.line.val, words |-> r.words]
            IN [r EXCEPT !.pc = "objects_done", !.line = Some(last.line),
                         !.yield = Append(@, last.line),
                         !.words = last.words]
       ELSE IF r.obj0 = 0 THEN next
       ELSE IF ClassifiedGoOn(r, la)
       THEN LET a == Classified_add(r.line.val, r.words, r.pos + 1, o)
            IN [next EXCEPT !.line = Some(a.line), !.words = a.words]
       ELSE IF ~r.line.none
       THEN [next EXCEPT !.yield = Append(@, r.line.val), !.line = None]
       ELSE ClassifiedNew(r, la, o)

\* The first loop of group_textlines from position pos on.
RECURSIVE group_textlines_boxes(_, _, _, _, _)
group_textlines_boxes(ls, la, pos, bx, bobjs) ==
    IF pos = Len(ls) THEN [boxes |-> bx, box_objs |-> bobjs]
    ELSE LET line == pos + 1
             neighbors == find_neighbors(ls, line, la.line_margin)
             g == GatherMembers(<<line>>, bx, bobjs, neighbors)
             b == Len(bobjs) + 1
             f == FillBox(NewTextBox(ls[line].vertical), b, g.boxes, ls,
                          uniq(g.members))
         IN group_textlines_boxes(ls, la, line, f.boxes,
                                  Append(bobjs, f.box))

\* The second loop of group_textlines from position pos on: the boxes it
\* yields.
RECURSIVE group_textlines_yielded(_, _, _, _)
group_textlines_yielded(g, n, pos, seen) ==
    IF pos = n THEN <<>>
    ELSE LET line == pos + 1
         IN IF line \notin DOMAIN g.boxes \/ g.boxes[line] \in seen
            THEN group_textlines_yielded(g, n, line, seen)
            ELSE (IF is_empty(g.box_objs[g.boxes[line]]) THEN <<>>
                  ELSE <<g.box_objs[g.boxes[line]]>>)
                   \o group_textlines_yielded(g, n, line,
                                              seen \cup {g.boxes[line]})

\* The lines that are not empty, as group_textlines takes them.
ClassifiedLines(r) ==
    LET lines == SplitEmpties([k \in DOMAIN r.yield |-> r.yield[k].geo]).f
    IN [k \in DOMAIN lines |->
           Rect(lines[k].x0, lines[k].y0, lines[k].x1, lines[k].y1,
                lines[k].cls = "LTTextLineVertical")]

\* The tags analyze writes on a box.
ClassifiedBox(box, o) ==
    [geo |-> box,
     type |-> IF is_header(o, box.objs) THEN "header"
              ELSE IF is_date(o, box.objs) THEN "date" ELSE "",
     form_field |-> IF is_account_number(o, box.objs) THEN "account_number"
                    ELSE IF is_cl_bal(o, box.objs) THEN "closing_balance"
                    ELSE ""]

\* textboxes = list(self.group_textlines(laparams, textlines)), and the
\* loop that classifies the boxes.
analyze_classify(r, la, o) ==
    LET ls == ClassifiedLines(r)
        g == group_textlines_boxes(ls, la, 0, <<>>, <<>>)
        yielded == group_textlines_yielded(g, Len(ls), 0, {})
    IN [r EXCEPT !.pc = "boxes_done",
                 !.boxes = [k \in DOMAIN yielded |->
                               ClassifiedBox(yielded[k], o)]]

InitTags ==
    /\ pc = "classified"
    /\ laparams \in [line_overlap : LineOverlaps, char_margin : CharMargins,
                     word_margin : {Frac(1, 10)}, line_margin : {Frac(1, 2)},
                     detect_vertical : BOOLEAN]
    /\ \E words \in SeqsUpTo(TaggedWords, MaxTagged) \ {<<>>} :
       \E o1 \in Oracles, o2 \in OtherOracles :
          twin = Some([oracle |-> <<o1, o2>>,
                       run |-> <<ClassifiedRun(words), ClassifiedRun(words)>>])
    /\ NoBoxes /\ NoContainer /\ NoLines /\ NoObjects /\ NoChars /\ NoCompare

\* Both runs make their next pass of group_objects.
classified_objects ==
    /\ pc = "classified"
    /\ \E n \in 1..2 : twin.val.run[n].pc = "objects"
    /\ twin' = [twin EXCEPT !.val.run =
                   [n \in 1..2 |->
                       IF twin.val.run[n].pc = "objects"
                       THEN group_objects_pass(twin.val.run[n], laparams,
                                               twin.val.oracle[n])
                       ELSE twin.val.run[n]]]
    /\ UNCHANGED <<pc, laparams, tbVars, ccVars, tlVars, goVars, tcVars,
                   cmpVars>>

\* Both runs group their lines into boxes and classify the boxes.
classified_boxes ==
    /\ pc = "classified"
    /\ \A n \in 1..2 : twin.val.run[n].pc = "objects_done"
    /\ twin' = [twin EXCEPT !.val.run =
                   [n \in 1..2 |->
                       analyze_classify(twin.val.run[n], laparams,
                                        twin.val.oracle[n])]]
    /\ pc' = "classified_done"
    /\ UNCHANGED <<laparams, tbVars, ccVars, tlVars, goVars, tcVars, cmpVars>>

NextTags ==
    \/ classified_objects
    \/ classified_boxes

SpecTags == InitTags /\ [][NextTags]_vars

(***************************************************************************)
(* The overlap and distance functions of LTComponent, called on two        *)
(* primitives.                                                             *)
(***************************************************************************)
MaxExtent == 3

\* Every box with corners on the grid 0..MaxExtent.
Extents ==
    { Component("LTComponent", x0, y0, x1, y1) :
        x0 \in 0..MaxExtent, y0 \in 0..MaxExtent,
        x1 \in 0..MaxExtent, y1 \in 0..MaxExtent }

InitOverlap ==
    /\ pc = "overlap"
    /\ laparams = None
    /\ cmp \in [op : {""},
                self : { e \in Extents : e.x0 < e.x1 /\ e.y0 < e.y1 },
                other : { e \in Extents : e.x0 < e.x1 /\ e.y0 < e.y1 },
                out : {Returns(0)}]
    /\ NoBoxes /\ NoContainer /\ NoLines /\ NoObjects /\ NoChars /\ NoTwin

\* self.hoverlap(other)
call_hoverlap ==
    /\ pc = "overlap"
    /\ cmp' = [cmp EXCEPT !.op = "hoverlap",
                          !.out = Returns(hoverlap(cmp.self, cmp.other))]
    /\ pc' = "called"
    /\ UNCHANGED <<laparams, tbVars, ccVars, tlVars, goVars, tcVars, twinVars>>

\* self.voverlap(other)
call_voverlap ==
    /\ pc = "overlap"
    /\ cmp' = [cmp EXCEPT !.op = "voverlap",
                          !.out = Returns(voverlap(cmp.self, cmp.other))]
    /\ pc' = "called"
    /\ UNCHANGED <<laparams, tbVars, ccVars, tlVars, goVars, tcVars, twinVars>>

\* self.hdistance(other)
call_hdistance ==
    /\ pc = "overlap"
    /\ cmp' = [cmp EXCEPT !.op = "hdistance",
                          !.out = Returns(hdistance(cmp.self, cmp.other))]
    /\ pc' = "called"
    /\ UNCHANGED <<laparams, tbVars, ccVars, tlVars, goVars, tcVars, twinVars>>

\* self.vdistance(other)
call_vdistance ==
    /\ pc = "overlap"
    /\ cmp' = [cmp EXCEPT !.op = "vdistance",
                          !.out = Returns(vdistance(cmp.self, cmp.other))]
    /\ pc' = "called"
    /\ UNCHANGED <<laparams, tbVars, ccVars, tlVars, goVars, tcVars, twinVars>>

NextOverlap ==
    \/ call_hoverlap
    \/ call_voverlap
    \/ call_hdistance
    \/ call_vdistance

SpecOverlap == InitOverlap /\ [][NextOverlap]_vars

(***************************************************************************)
(* Claims about group_textlines.                                           *)
(***************************************************************************)
LinesReturned == pc = "lines_done"

\* The lines of the box yielded at position k.
YieldedLines(k) == Range(tl_box_objs[tl_yield[k]].objs)

\* i and j are linked when one is in the find_neighbors result of the other.
Linked(i, j) ==
    \/ j \in Range(find_neighbors(tl_lines, i, laparams.line_margin))
    \/ i \in Range(find_neighbors(tl_lines, j, laparams.line_margin))

\* The lines a chain of links reaches from the lines of S.
RECURSIVE Chained(_)
Chained(S) ==
    LET T == S \cup { j \in DOMAIN tl_lines : \E i \in S : Linked(i, j) }
    IN IF T = S THEN S ELSE Chained(T)

SameYieldedBox(i, j) ==
    \E k \in DOMAIN tl_yield : i \in YieldedLines(k) /\ j \in YieldedLines(k)

\* C6: when group_textlines has returned, every input line is in exactly one
\* yielded box, and two lines are in the same yielded box if and only if a
\* chain of neighbor relations (find_neighbors of one containing the other,
\* in either direction) links them; the input runs over every order of lines.
C6_BoxesAreConnectedComponents ==
    LinesReturned =>
        /\ \A i \in DOMAIN tl_lines :
             Cardinality({ k \in DOMAIN tl_yield : i \in YieldedLines(k) }) = 1
        /\ \A k \in DOMAIN tl_yield :
             Cardinality(YieldedLines(k)) = Len(tl_box_objs[tl_yield[k]].objs)
        /\ \A i, j \in DOMAIN tl_lines :
             SameYieldedBox(i, j) <=> j \in Chained({i})

\* Three lines in one box of which two are linked only through the third,
\* one link holding in one direction only.
C6_Witness ==
    /\ LinesReturned
    /\ Len(tl_lines) = 3
    /\ Len(tl_yield) = 1
    /\ \E i, j \in DOMAIN tl_lines : i # j /\ ~Linked(i, j)
    /\ \E i, j \in DOMAIN tl_lines :
         /\ j \in Range(find_neighbors(tl_lines, i, laparams.line_margin))
         /\ i \notin Range(find_neighbors(tl_lines, j, laparams.line_margin))

\* The gap between two lines one above the other.
VerticalGap(a, b) == Max2(a.y0 - b.y1, b.y0 - a.y1)

\* C7: two horizontal lines of equal height with identical left edges whose
\* vertical gap is smaller than line_margin x height are neighbors of each
\* other and are yielded in the same box, for every configured line_margin.
C7_RadiusIsLineMargin ==
    LinesReturned =>
        \A i, j \in DOMAIN tl_lines :
            LET a == tl_lines[i]
                b == tl_lines[j]
                m == laparams.line_margin
            IN (/\ ~a.vertical /\ ~b.vertical
                /\ height(a) = height(b)
                /\ a.x0 = b.x0
                /\ VerticalGap(a, b) >= 0
                /\ VerticalGap(a, b) * m.den < m.num * height(a))
               => /\ j \in Range(find_neighbors(tl_lines, i, m))
                  /\ SameYieldedBox(i, j)

(***************************************************************************)
(* Claims about group_objects.                                             *)
(***************************************************************************)
\* Positions p < q of a line that hold two words with only markers between.
ConsecutiveWords(line, p, q) ==
    /\ p < q
    /\ ~line.objs[p].anno /\ ~line.objs[q].anno
    /\ \A r \in (p + 1)..(q - 1) : line.objs[r].anno

\* The gap from a to b exceeds word_margin x max(width, height) of b.
WideGap(a, b, wm) ==
    (b.x0 - a.x1) * wm.den > wm.num * Max2(width(b), height(b))

\* C8: between two consecutive words of a horizontal line made by
\* group_objects there is exactly one space marker when the gap between
\* them exceeds word_margin x max(width, height) of the second, and none
\* when it does not.
C8_SpaceMarkerBetweenWords ==
    \A k \in DOMAIN go_yield :
        LET line == go_yield[k]
        IN line.cls = "LTTextLineHorizontal" =>
             \A p, q \in DOMAIN line.objs :
                 ConsecutiveWords(line, p, q) =>
                     q - p - 1 =
                         IF WideGap(line.objs[p], line.objs[q],
                                    laparams.word_margin)
                         THEN 1 ELSE 0

(***************************************************************************)
(* Claims about group_textchars.                                           *)
(***************************************************************************)
CharsReturned == pc = "chars_done"

\* The positions in the input of the glyphs of a word, in the word's order.
WordGlyphs(w) == [p \in DOMAIN w.objs |-> w.objs[p].h]

\* The text of the glyph is neither a space nor a line break.
IsLetter(g) == g.text \notin {" ", "\n"}

\* The height two glyphs share, and the gap between them on the x axis.
SharedHeight(a, b) == Min2(a.y1, b.y1) - Max2(a.y0, b.y0)
GapX(a, b) == Max2(0, Max2(b.x0 - a.x1, a.x0 - b.x1))

\* a and b overlap vertically by more than line_overlap x min(height) and
\* are closer horizontally than char_margin_for_word x max(width).
AlignedPair(a, b) ==
    LET lo == laparams.line_overlap
        cm == laparams.char_margin_for_word
    IN /\ SharedHeight(a, b) * lo.den > lo.num * Min2(height(a), height(b))
       /\ GapX(a, b) * cm.den < cm.num * Max2(width(a), width(b))

\* The glyphs i..j are a run: two or more letters, each aligned with the
\* next.
AlignedRun(i, j) ==
    /\ i < j
    /\ \A k \in i..j : IsLetter(tc_objs[k])
    /\ \A k \in i..(j - 1) : AlignedPair(tc_objs[k], tc_objs[k + 1])

\* C9: with detect_vertical disabled, when group_textchars has returned,
\* every run of consecutive non-space glyphs in which each adjacent pair
\* overlaps vertically by more than line_overlap x min(height) and is
\* closer horizontally than char_margin_for_word x max(width) lies in
\* exactly one yielded word, and that word holds the glyphs of the run in
\* stream order.  A run has an adjacent pair, that is two glyphs or more.
C9_AlignedRunIsOneWord ==
    (CharsReturned /\ ~laparams.detect_vertical) =>
        \A i, j \in DOMAIN tc_objs :
            AlignedRun(i, j) =>
                /\ Cardinality({ w \in DOMAIN tc_yield :
                       \E k \in i..j : k \in Range(WordGlyphs(tc_yield[w])) })
                     = 1
                /\ \E w \in DOMAIN tc_yield :
                       SelectSeq(WordGlyphs(tc_yield[w]),
                                 LAMBDA h : h \in i..j)
                         = [k \in 1..(j - i + 1) |-> i + k - 1]

\* A run of three glyphs that does not start the input, two of them of
\* different widths and further apart than the margin on the narrower.
C9_Witness ==
    /\ CharsReturned /\ ~laparams.detect_vertical
    /\ \E i, j \in DOMAIN tc_objs :
         /\ i > 1 /\ j = i + 2 /\ AlignedRun(i, j)
         /\ ~AlignedPair(tc_objs[i - 1], tc_objs[i])
         /\ \E k \in i..(j - 1) :
              LET cm == laparams.char_margin_for_word
                  a == tc_objs[k]
                  b == tc_objs[k + 1]
              IN GapX(a, b) * cm.den >= cm.num * Min2(width(a), width(b))

\* C10: no word yielded by group_textchars holds a glyph whose text is a
\* space or a line break.
C10_NoBlankInWord ==
    \A w \in DOMAIN tc_yield :
        \A p \in DOMAIN tc_yield[w].objs : IsLetter(tc_yield[w].objs[p])

(***************************************************************************)
(* Claims about analyze with and without boxes_flow.                       *)
(***************************************************************************)
Analyzed == pc = "analyzed"

FlatAnalyzed == Analyzed /\ laparams.boxes_flow = NoFlow

IsVerticalBox(h) == store[h].kind = "LTTextBoxVertical"

\* C11: with boxes_flow None, after analyze every vertical-typed box comes
\* before every horizontal-typed box, and the vertical boxes are in order
\* of descending right edge x1, ties in order of descending bottom edge y0.
C11_VerticalBoxesFirst ==
    FlatAnalyzed =>
        \A i, j \in DOMAIN textboxes :
            i < j =>
                LET a == store[textboxes[i]]
                    b == store[textboxes[j]]
                IN /\ IsVerticalBox(textboxes[j]) => IsVerticalBox(textboxes[i])
                   /\ (IsVerticalBox(textboxes[i]) /\ IsVerticalBox(textboxes[j]))
                        => \/ a.x1 > b.x1
                           \/ a.x1 = b.x1 /\ a.y0 >= b.y0

\* A horizontal box given first and two vertical boxes of different right
\* edges given in ascending order: the sort moved all three.
C11_Witness ==
    /\ FlatAnalyzed
    /\ Len(textboxes) = 3
    /\ ~IsVerticalBox(1) /\ IsVerticalBox(2) /\ IsVerticalBox(3)
    /\ store[2].x1 < store[3].x1
    /\ textboxes = <<3, 2, 1>>

\* C12: with boxes_flow None, after analyze the horizontal-typed boxes are
\* in order of descending top edge y1, ties in order of ascending left edge
\* x0, whatever their heights.
C12_HorizontalByTopEdge ==
    FlatAnalyzed =>
        \A i, j \in DOMAIN textboxes :
            (i < j /\ ~IsVerticalBox(textboxes[i]) /\ ~IsVerticalBox(textboxes[j]))
                => LET a == store[textboxes[i]]
                       b == store[textboxes[j]]
                   IN \/ a.y1 > b.y1
                      \/ a.y1 = b.y1 /\ a.x0 <= b.x0

\* C13: after analyze with boxes_flow None no group exists, groups is
\* unset and every text box has index -1; with boxes_flow a number groups
\* is set and every text box has an index >= 0.
C13_ClusteringOnlyWithFlow ==
    Analyzed =>
        IF laparams.boxes_flow = NoFlow
        THEN /\ groups = None
             /\ \A h \in DOMAIN store : IsBox(store[h])
             /\ \A h \in Range(textboxes) : store[h].index = 0 - 1
        ELSE /\ groups # None
             /\ \A h \in Range(textboxes) : store[h].index >= 0

\* Three boxes analyzed with boxes_flow None.
C13_Witness ==
    /\ FlatAnalyzed
    /\ Len(textboxes) = 3
    /\ groups = None
    /\ \A h \in Range(textboxes) : store[h].index = 0 - 1

(***************************************************************************)
(* Claims about LAParams.                                                  *)
(***************************************************************************)
\* The value is a number: an int (a bool is one) or a float.
IsNumber(v) == v.type \in {"int", "bool", "float"}

\* The number lies in the closed range [-1, 1]; nan lies nowhere.
WithinUnit(v) == v.den # 0 /\ 0 - v.den <= v.num /\ v.num <= v.den

\* C14: constructing LAParams fails if and only if boxes_flow is neither
\* None nor a number in [-1, 1]; a non-number fails with TypeError, a
\* number outside the range with ValueError; None, -1, +1 and every number
\* between them are accepted.
C14_BoxesFlowValidated ==
    pc \in {"constructed", "TypeError", "ValueError"} =>
        LET v == laparams.boxes_flow
        IN /\ pc = "constructed"
                <=> (v.type = "NoneType" \/ (IsNumber(v) /\ WithinUnit(v)))
           /\ pc = "TypeError" <=> (v.type # "NoneType" /\ ~IsNumber(v))
           /\ pc = "ValueError" <=> (IsNumber(v) /\ ~WithinUnit(v))

\* The float +1 is accepted.
C14_Witness ==
    /\ pc = "constructed"
    /\ laparams.boxes_flow = Value("float", 4, 4)

(***************************************************************************)
(* Claims about the comparisons of LTComponent.                            *)
(***************************************************************************)
\* C15: each of <, <=, >, >= invoked on a geometric primitive raises an
\* error whatever the other operand and whatever the coordinates; none
\* returns a truth value.
C15_ComparisonAlwaysFails ==
    pc = "compared" =>
        /\ cmp.op \in {"<", "<=", ">", ">="}
        /\ cmp.out.raised = "ValueError"
        /\ cmp.out.value \notin {"True", "False"}

\* A < between two primitives whose left edges are in that order.
C15_Witness ==
    /\ pc = "compared"
    /\ cmp.op = "<"
    /\ cmp.other.kind = "LTComponent"
    /\ cmp.self.x0 < cmp.other.x0
    /\ cmp.out.raised = "ValueError"

(***************************************************************************)
(* Claims about analyze as a whole.                                        *)
(***************************************************************************)
\* No word, line, box or group exists, and groups is unset, after the step.
NothingCreated ==
    /\ tc_yield' = <<>> /\ tc_word' = None
    /\ go_yield' = <<>> /\ go_line' = None
    /\ tl_box_objs' = <<>>
    /\ store' = <<>> /\ textboxes' = <<>>
    /\ groups' = None

HasGlyph(objs) == \E i \in DOMAIN objs : objs[i].cls = "LTChar"

\* The child list after the step is the list before it, each child
\* analyzed n times more.
SameChildren(n) ==
    /\ DOMAIN container'.objs = DOMAIN container.objs
    /\ \A i \in DOMAIN container.objs :
         container'.objs[i] = [container.objs[i] EXCEPT !.analyzed = @ + n]

\* C16: analyze of a page, or of a figure with all_texts, none of whose
\* children is a glyph returns without an error, creates no word, line, box
\* or group, leaves the child list as it was and has analyzed each child
\* exactly once.
C16_NoGlyphIsNoOp ==
    [][ ( /\ pc = "analyze"
          /\ container.cls = "LTPage" \/ laparams.all_texts
          /\ ~HasGlyph(container.objs) )
        => ( /\ pc' = "returned"
             /\ SameChildren(1)
             /\ NothingCreated ) ]_vars

\* A container of three children, none a glyph, has returned from analyze.
C16_Witness ==
    /\ pc = "returned"
    /\ container.cls = "LTPage" \/ laparams.all_texts
    /\ tc_objs = <<>>
    /\ Len(container.objs) = 3
    /\ \A i \in DOMAIN container.objs :
         container.objs[i].h = i /\ container.objs[i].analyzed = 1

\* C17: analyze of a figure with all_texts False returns with the child
\* list as it was, no child analyzed, and no word, line, box or group
\* created; with all_texts True it does what analyze of a page does: the
\* other children are analyzed and group_textchars is called on the glyphs,
\* if there are any.
C17_FigureAllTexts ==
    [][ ( pc = "analyze" /\ container.cls = "LTFigure" )
        => IF ~laparams.all_texts
           THEN /\ pc' = "returned"
                /\ container' = container
                /\ NothingCreated
           ELSE /\ DOMAIN container'.objs = DOMAIN container.objs
                /\ \A i \in DOMAIN container.objs :
                     container'.objs[i] =
                         [container.objs[i] EXCEPT !.analyzed =
                             IF container.objs[i].cls = "LTChar" THEN 0 ELSE 1]
                /\ IF HasGlyph(container.objs)
                   THEN /\ pc' = "chars"
                        /\ tc_objs' = SelectSeq(container.objs,
                                          LAMBDA o : o.cls = "LTChar")
                   ELSE pc' = "returned" ]_vars

\* A figure with glyphs among its three children has returned from analyze
\* with all_texts False.
C17_Witness ==
    /\ pc = "returned"
    /\ container.cls = "LTFigure" /\ ~laparams.all_texts
    /\ Len(container.objs) = 3
    /\ HasGlyph(container.objs)
    /\ \E i \in DOMAIN container.objs : container.objs[i].cls # "LTChar"
    /\ \A i \in DOMAIN container.objs :
         container.objs[i].h = i /\ container.objs[i].analyzed = 0

(***************************************************************************)
(* C18, C19: the tags of classification.                                   *)
(***************************************************************************)
\* Word i of the run is in a horizontal line, open or yielded.
InHorizontalLine(r, i) ==
    LET has(l) == /\ l.geo.cls = "LTTextLineHorizontal"
                  /\ \E k \in DOMAIN l.geo.objs :
                        ~l.geo.objs[k].anno /\ l.geo.objs[k].h = i
    IN \/ ~r.line.none /\ has(r.line.val)
       \/ \E k \in DOMAIN r.yield : has(r.yield[k])

\* The run whose pattern classifier is the one of the code.
CodeRun == twin.val.run[1]
CodeOracle == twin.val.oracle[1]

\* C18: a word whose text matches the account-number pattern and matches no
\* account-label phrase has form-field "account_number" once it has been
\* added to a horizontal line.
C18_PatternSetsAccountNumber ==
    \A i \in DOMAIN CodeRun.words :
        ( /\ is_ac_num_regex(CodeRun.words[i].text)
          /\ ~is_account_number(CodeOracle, CodeRun.words[i].text)
          /\ InHorizontalLine(CodeRun, i) )
        => CodeRun.words[i].form_field = "account_number"

\* The grouping of a run without its tags.
SameLine(l1, l2) ==
    /\ l1.none = l2.none
    /\ ~l1.none /\ ~l2.none => l1.val.geo = l2.val.geo

Untagged(seq) == [k \in DOMAIN seq |-> seq[k].geo]

SameGrouping(r1, r2) ==
    /\ r1.pc = r2.pc /\ r1.pos = r2.pos /\ r1.obj0 = r2.obj0
    /\ SameLine(r1.line, r2.line)
    /\ Untagged(r1.yield) = Untagged(r2.yield)
    /\ Untagged(r1.boxes) = Untagged(r2.boxes)
    /\ [i \in DOMAIN r1.words |->
           [r1.words[i] EXCEPT !.type = "", !.form_field = ""]]
         = [i \in DOMAIN r2.words |->
               [r2.words[i] EXCEPT !.type = "", !.form_field = ""]]

SharedWidth(a, b) == Min2(a.x1, b.x1) - Max2(a.x0, b.x0)
GapY(a, b) == Max2(0, Max2(b.y0 - a.y1, a.y0 - b.y1))

\* a and b overlap horizontally by more than line_overlap x min(width),
\* are closer vertically than char_margin_for_word x max(height), and are
\* not aligned horizontally.
VerticalPair(a, b) ==
    LET lo == laparams.line_overlap
        cm == laparams.char_margin_for_word
    IN /\ SharedWidth(a, b) * lo.den > lo.num * Min2(width(a), width(b))
       /\ GapY(a, b) * cm.den < cm.num * Max2(height(a), height(b))
       /\ ~AlignedPair(a, b)

\* The glyphs i..j are a vertical run: three or more letters, each under
\* the vertical condition with the next.
VerticalRun(i, j) ==
    /\ i + 2 <= j
    /\ \A k \in i..j : IsLetter(tc_objs[k])
    /\ \A k \in i..(j - 1) : VerticalPair(tc_objs[k], tc_objs[k + 1])

\* C20: with detect_vertical enabled, when group_textchars has returned,
\* every run of three or more consecutive non-space glyphs in which each
\* adjacent pair satisfies the vertical alignment condition and not the
\* horizontal one lies in one yielded vertical word that holds all the
\* glyphs of the run.
C20_VerticalRunIsOneWord ==
    (CharsReturned /\ laparams.detect_vertical) =>
        \A i, j \in DOMAIN tc_objs :
            VerticalRun(i, j) =>
                \E w \in DOMAIN tc_yield :
                    /\ tc_yield[w].cls = "LTTextWordVertical"
                    /\ \A k \in i..j : k \in Range(WordGlyphs(tc_yield[w]))

(***************************************************************************)
(* C21, C28: blanks and the conservation of glyphs.                        *)
(***************************************************************************)
\* C21: in every output of group_textchars, the letter just before a space
\* or line break of the input and the letter just after it are never in
\* the same word.
C21_BlankTerminatesWord ==
    \A i \in DOMAIN tc_objs :
        ( /\ 1 < i /\ i < Len(tc_objs)
          /\ ~IsLetter(tc_objs[i])
          /\ IsLetter(tc_objs[i - 1]) /\ IsLetter(tc_objs[i + 1]) )
        => \A w \in DOMAIN tc_yield :
              ~ ( /\ (i - 1) \in Range(WordGlyphs(tc_yield[w]))
                  /\ (i + 1) \in Range(WordGlyphs(tc_yield[w])) )

\* The positions of the letters of the input, in stream order.
LetterPositions ==
    SelectSeq([k \in DOMAIN tc_objs |-> k], LAMBDA k : IsLetter(tc_objs[k]))

\* The glyph positions of the words w.. of the output, one word after the
\* other.
RECURSIVE YieldedGlyphs(_)
YieldedGlyphs(w) ==
    IF w > Len(tc_yield) THEN <<>>
    ELSE WordGlyphs(tc_yield[w]) \o YieldedGlyphs(w + 1)

\* C28: when group_textchars has returned, every glyph that is not a space
\* or line break is in exactly one yielded word, and the words in yield
\* order list those glyphs in stream order.
C28_GlyphConservation ==
    CharsReturned =>
        SelectSeq(YieldedGlyphs(1), LAMBDA k : IsLetter(tc_objs[k]))
          = LetterPositions

(***************************************************************************)
(* C22, C29: which words group_objects puts in one line.                   *)
(***************************************************************************)
\* The positions in the input of the members of a line, markers left out.
LineMembers(line) ==
    { line.objs[p].h : p \in { q \in DOMAIN line.objs : ~line.objs[q].anno } }

\* C22: when a line yielded by group_objects holds two consecutive members
\* of the input, exactly one of halign and valign holds of the pair, and
\* the line is horizontal when it is halign and vertical when it is valign:
\* a pair for which both hold or neither holds is never in one line.
C22_OnlyOneWayAlignedMerge ==
    \A k \in DOMAIN go_yield :
        \A i \in DOMAIN go_objs :
            ( i < Len(go_objs) /\ {i, i + 1} \subseteq LineMembers(go_yield[k]) )
            => LET halign == group_objects_halign(go_objs[i], go_objs[i + 1],
                                                  laparams)
                   valign == group_objects_valign(go_objs[i], go_objs[i + 1],
                                                  laparams)
               IN /\ halign # valign
                  /\ halign => go_yield[k].cls = "LTTextLineHorizontal"
                  /\ valign => go_yield[k].cls = "LTTextLineVertical"

ObjectsReturned == pc = "objects_done"

\* The members of a line in the order of the line, markers left out.
LineMemberSeq(line) ==
    LET ps == SelectSeq([q \in DOMAIN line.objs |-> q],
                        LAMBDA q : ~line.objs[q].anno)
    IN [p \in DOMAIN ps |-> line.objs[ps[p]].h]

\* The members of the lines k.. of the output, one line after the other.
RECURSIVE YieldedMembers(_)
YieldedMembers(k) ==
    IF k > Len(go_yield) THEN <<>>
    ELSE LineMemberSeq(go_yield[k]) \o YieldedMembers(k + 1)

\* C29: no line yielded by group_objects is without a word, and when
\* group_objects has returned the lines in yield order list every word of
\* the input once, in input order.
C29_WordConservation ==
    /\ \A k \in DOMAIN go_yield : LineMemberSeq(go_yield[k]) # <<>>
    /\ ObjectsReturned =>
          YieldedMembers(1) = [i \in DOMAIN go_objs |-> i]

\* Three words came out as a line of two or more, closed by a word that
\* does not go on with it, and a line of that word alone.
C29_Witness ==
    /\ ObjectsReturned
    /\ Len(go_objs) = 3
    /\ Len(go_yield) = 2
    /\ Len(LineMemberSeq(go_yield[1])) = 2
    /\ LineMemberSeq(go_yield[2]) = <<3>>

(***************************************************************************)
(* C23, C24, C25, C26, C30: the clustering of group_textboxes.             *)
(***************************************************************************)
\* The area of the rectangle around a and b less the areas of a and b.
Area(o) == (o.x1 - o.x0) * (o.y1 - o.y0)

PairDistance(a, b) ==
    (Max2(a.x1, b.x1) - Min2(a.x0, b.x0))
        * (Max2(a.y1, b.y1) - Min2(a.y0, b.y0)) - Area(a) - Area(b)

\* The step is a merge: the store has a new group.
Merging == pc = "loop" /\ Len(store') = Len(store) + 1

\* C23: every merge of group_textboxes joins two objects that are live
\* when it happens and whose distance is least among the pairs of objects
\* live at that moment.
C23_MergeIsNearestPair ==
    [][ Merging =>
          LET g == store'[Len(store')]
              a == g.objs[1]
              b == g.objs[2]
          IN /\ a # b
             /\ {a, b} \subseteq plane_objs
             /\ \A x, y \in plane_objs :
                   x # y => PairDistance(store[a], store[b])
                              <= PairDistance(store[x], store[y]) ]_vars

\* The first merge joined the second and third box, not the first pair of
\* the list, and a second merge followed.
C23_Witness ==
    /\ pc = "loop"
    /\ NBoxes = 3 /\ NMerges = 2
    /\ store[4].objs = <<2, 3>>
    /\ PairDistance(store[2], store[3]) < PairDistance(store[1], store[2])

\* The groups of the store.
Groups == { h \in DOMAIN store : IsGroup(store[h]) }

\* C24: a group built by group_textboxes is of the TB-RL kind when one of
\* the leaf boxes beneath it is vertical, and of the LR-TB kind when all of
\* them are horizontal.
C24_GroupKindFollowsLeaves ==
    \A g \in Groups :
        LET leaves == Range(LeafOrder(store, g))
        IN IF \E b \in leaves : store[b].kind = "LTTextBoxVertical"
           THEN store[g].kind = "LTTextGroupTBRL"
           ELSE store[g].kind = "LTTextGroupLRTB"

\* A TB-RL group of a TB-RL group and a horizontal box: the kind comes from
\* a leaf two levels down.
C24_Witness ==
    /\ pc = "grouped"
    /\ \E g \in Groups :
          /\ store[g].kind = "LTTextGroupTBRL"
          /\ \E c \in Range(store[g].objs) :
                store[c].kind = "LTTextGroupTBRL"
          /\ \E c \in Range(store[g].objs) :
                store[c].kind = "LTTextBoxHorizontal"

\* The sort key of a child o of a group, times the denominator of
\* boxes_flow: (1 - boxes_flow) * x0 - (1 + boxes_flow) * (y0 + y1) in an
\* LR-TB group, -(1 + boxes_flow) * (x0 + x1) - (1 - boxes_flow) * y1 in a
\* TB-RL group.
OrderKey(g, o) ==
    LET bf == laparams.boxes_flow
    IN IF g.kind = "LTTextGroupLRTB"
       THEN (bf.den - bf.num) * o.x0 - (bf.den + bf.num) * (o.y0 + o.y1)
       ELSE (0 - (bf.den + bf.num)) * (o.x0 + o.x1)
              - (bf.den - bf.num) * o.y1

\* The place of x in a list without repeats.
PlaceIn(seq, x) == CHOOSE p \in DOMAIN seq : seq[p] = x

\* C25: the analysis of the groups leaves every group, sub-groups
\* included, with the children it had, in non-decreasing order of the key
\* of its kind, children of equal key in the order the merge gave them.
C25_GroupChildrenSorted ==
    [][ (pc = "grouped" /\ pc' = "indexed") =>
          \A g \in Groups :
              LET merged == store[g].objs
                  sorted == store'[g].objs
                  key(c) == OrderKey(store'[g], store'[c])
              IN /\ Len(sorted) = Len(merged)
                 /\ Range(sorted) = Range(merged)
                 /\ \A i, j \in DOMAIN sorted :
                       i < j =>
                         \/ key(sorted[i]) < key(sorted[j])
                         \/ /\ key(sorted[i]) = key(sorted[j])
                            /\ PlaceIn(merged, sorted[i])
                                 < PlaceIn(merged, sorted[j]) ]_vars

\* After the analysis of three boxes: the top group, made as (group, box),
\* has the box first, and the sub-group has two children of equal key.
C25_Witness ==
    /\ pc = "indexed"
    /\ NBoxes = 3
    /\ \E g \in Groups :
          /\ IsBox(store[store[g].objs[1]])
          /\ IsGroup(store[store[g].objs[2]])
    /\ \E g \in Groups :
          OrderKey(store[g], store[store[g].objs[1]])
            = OrderKey(store[g], store[store[g].objs[2]])

\* The key of a queue entry: flag, distance, identity of the first,
\* identity of the second.
QueueKey(e) == <<e.skip_isany, e.d, e.id1, e.id2>>

\* C26: at no point during group_textboxes do two entries of the queue
\* have the same key, so that of two entries one is before the other by
\* the key alone.
C26_QueueKeysDistinct ==
    \A i, j \in DOMAIN dists :
        i # j => /\ QueueKey(dists[i]) # QueueKey(dists[j])
                 /\ KeyLess(dists[i], dists[j]) \/ KeyLess(dists[j], dists[i])

\* Two entries of the queue with the same flag and the same distance, one
\* of them of a group.
C26_Witness ==
    /\ pc = "loop"
    /\ \E i, j \in DOMAIN dists :
          /\ i # j
          /\ dists[i].skip_isany = dists[j].skip_isany
          /\ dists[i].d = dists[j].d
          /\ IsGroup(store[dists[i].obj1])

\* The entries of the queue for the pair of x and y, either way round.
EntriesOf(x, y) ==
    { i \in DOMAIN dists : {dists[i].obj1, dists[i].obj2} = {x, y} }

\* The entry the next pop takes refers to a consumed identity.
PopsStale ==
    /\ pc = "loop" /\ dists # <<>>
    /\ LET e == dists[HeapMin(dists)]
       IN e.id1 \in done \/ e.id2 \in done

\* C30: at the start of every iteration of the loop of group_textboxes
\* every pair of distinct live objects has exactly one entry in the queue
\* and no live object's identity is in the consumed set; and an entry that
\* refers to a consumed identity is dropped when it is popped, the live
\* set and the objects staying as they are.
C30_QueueComplete ==
    /\ [] ( pc = "loop" =>
              /\ \A x, y \in plane_objs :
                    x # y => Cardinality(EntriesOf(x, y)) = 1
              /\ \A x \in plane_objs : store[x].id \notin done )
    /\ [][ PopsStale =>
             /\ plane_objs' = plane_objs
             /\ plane_seq' = plane_seq
             /\ store' = store
             /\ done' = done
             /\ dists' = RemoveAt(dists, HeapMin(dists)) ]_vars

\* A merge has happened among three boxes: the queue holds the entry of
\* the new group with the third box and entries of consumed boxes, and the
\* next pop takes one of those.
C30_Witness ==
    /\ PopsStale
    /\ NBoxes = 3 /\ NMerges = 1
    /\ \E x, y \in plane_objs :
          x # y /\ IsGroup(store[x]) /\ Cardinality(EntriesOf(x, y)) = 1

(***************************************************************************)
(* C27: overlap and distance of two boxes.                                 *)
(***************************************************************************)
\* C27: hoverlap (voverlap) returns the length of the intersection of the
\* x-extents (y-extents) of the two boxes, 0 when they do not meet;
\* hdistance (vdistance) returns the gap between the extents, 0 when they
\* meet.
C27_OverlapIsIntersection ==
    LET a == cmp.self
        b == cmp.other
    IN /\ cmp.op = "hoverlap" => cmp.out.value = Max2(0, SharedWidth(a, b))
       /\ cmp.op = "voverlap" => cmp.out.value = Max2(0, SharedHeight(a, b))
       /\ cmp.op = "hdistance" => cmp.out.value = GapX(a, b)
       /\ cmp.op = "vdistance" => cmp.out.value = GapY(a, b)

(***************************************************************************)
(* C31: the tree group_textboxes returns and the indices of its boxes.     *)
(***************************************************************************)
\* The nodes of the tree below h, h included, one entry per occurrence.
RECURSIVE NodesBelow(_, _)
RECURSIVE NodesBelowAll(_, _)
NodesBelowAll(st, hs) ==
    IF hs = <<>> THEN <<>>
    ELSE NodesBelow(st, Head(hs)) \o NodesBelowAll(st, Tail(hs))

NodesBelow(st, h) ==
    IF IsBox(st[h]) THEN <<h>> ELSE <<h>> \o NodesBelowAll(st, st[h].objs)

\* A list without repeats.
NoRepeats(seq) == \A i, j \in DOMAIN seq : i # j => seq[i] # seq[j]

\* C31: for n >= 1 boxes group_textboxes returns one node; no node occurs
\* twice beneath it, every group beneath it has exactly two children, and
\* its leaves are the n input boxes, each once.  Once the assigner has run,
\* the indices of the boxes are 0, 1, ..., n-1, each on exactly one box.
C31_BinaryTreeAndIndices ==
    (Returned /\ NBoxes >= 1) =>
        /\ Len(groups.val) = 1
        /\ LET nodes == NodesBelow(store, groups.val[1])
               leaves == LeafOrder(store, groups.val[1])
           IN /\ NoRepeats(nodes)
              /\ \A k \in DOMAIN nodes :
                    IsGroup(store[nodes[k]]) => Len(store[nodes[k]].objs) = 2
              /\ NoRepeats(leaves)
              /\ Range(leaves) = Range(textboxes)
              /\ Len(leaves) = NBoxes
        /\ pc \in {"indexed", "analyzed"} =>
              /\ { store[b].index : b \in Range(textboxes) } = 0..(NBoxes - 1)
              /\ \A a, b \in Range(textboxes) :
                    a # b => store[a].index # store[b].index

\* Three boxes under a group within a group, indexed 0, 1, 2 in an order
\* that is not the order of the input.
C31_Witness ==
    /\ pc = "indexed"
    /\ NBoxes = 3
    /\ Len(NodesBelow(store, groups.val[1])) = 5
    /\ \E b \in Range(textboxes) : store[b].index # b - 1

(***************************************************************************)
(* C32: the child list analyze leaves.                                     *)
(***************************************************************************)
\* The places of the list where P holds, in order; flags[i] is P(objs[i]).
PlacesWhere(flags) ==
    SelectSeq([i \in DOMAIN flags |-> i], LAMBDA i : flags[i])

IsTextBox(o) == o.cls \in {"LTTextBoxHorizontal", "LTTextBoxVertical"}
IsTextLine(o) == o.cls \in {"LTTextLineHorizontal", "LTTextLineVertical"}

\* C32: when analyze of a container that had a glyph among its children
\* returns, the child list is the text boxes in the order the analysis
\* gave them, then the children that were not glyphs, each once and in the
\* order they had, then the empty lines; no glyph is a child any more.
C32_ChildListAfterAnalyze ==
    [][ (pc = "analyzed" /\ pc' = "returned") =>
          LET old == container.objs
              new == container'.objs
              kept == PlacesWhere([i \in DOMAIN old |-> old[i].cls # "LTChar"])
              nb == Len(textboxes)
              nk == Len(kept)
              empties == PlacesWhere([k \in DOMAIN go_yield |->
                                         is_empty(go_yield[k])])
          IN /\ HasGlyph(old)
             /\ ~HasGlyph(new)
             /\ Len(new) = nb + nk + Len(empties)
             /\ \A k \in 1..nb :
                   /\ IsTextBox(new[k])
                   /\ new[k].cls = store[textboxes[k]].kind
                   /\ <<new[k].x0, new[k].y0, new[k].x1, new[k].y1>>
                        = <<store[textboxes[k]].x0, store[textboxes[k]].y0,
                            store[textboxes[k]].x1, store[textboxes[k]].y1>>
             /\ \A k \in 1..nk : new[nb + k] = old[kept[k]]
             /\ \A k \in 1..Len(empties) :
                   /\ IsTextLine(new[nb + nk + k])
                   /\ is_empty(new[nb + nk + k])
                   /\ new[nb + nk + k].cls = go_yield[empties[k]].cls ]_vars

\* analyze has returned a list of a text box, a child that is not a glyph
\* and that came after a glyph, and an empty line.
C32_Witness ==
    /\ pc = "returned"
    /\ tc_objs # <<>>
    /\ Len(container.objs) = 3
    /\ IsTextBox(container.objs[1])
    /\ container.objs[2].cls \in {"LTRect", "LTFigure"}
    /\ container.objs[2].h > 1
    /\ IsTextLine(container.objs[3]) /\ is_empty(container.objs[3])

====
